---- MODULE Spec2Model ----
(***************************************************************************)
(* ViPilot resume scorer: ResumeScorer.score of "Python backend/           *)
(* resumeScorer.py", with the text helpers it calls.                       *)
(*                                                                         *)
(* Text is a sequence of one-character strings, so that strip, lower and  *)
(* the substring test "a in b" are computed and not assumed.  Scores are   *)
(* IEEE-754 doubles, computed with round-to-nearest-even as Python does,   *)
(* because the verdict is taken from the unrounded double while the        *)
(* reported score is round(final_score, 2).                                *)
(***************************************************************************)
EXTENDS Integers, Sequences, FiniteSets, TLC

\* ---------- natural numbers of any size, little-endian limbs ----------
Base == 32768

RECURSIVE BNorm(_)
BNorm(a) == IF a = <<>> THEN <<>>
            ELSE IF a[Len(a)] = 0 THEN BNorm(SubSeq(a, 1, Len(a) - 1)) ELSE a

BFromInt(k) == BNorm(<<k % Base, (k \div Base) % Base, k \div (Base * Base)>>)

BToInt(a) == (IF Len(a) >= 1 THEN a[1] ELSE 0)
             + (IF Len(a) >= 2 THEN a[2] * Base ELSE 0)
             + (IF Len(a) >= 3 THEN a[3] * Base * Base ELSE 0)

BLimb(a, i) == IF i <= Len(a) THEN a[i] ELSE 0

RECURSIVE BAddFrom(_, _, _, _)
BAddFrom(a, b, i, carry) ==
    IF i > Len(a) /\ i > Len(b)
    THEN (IF carry = 0 THEN <<>> ELSE <<carry>>)
    ELSE LET s == BLimb(a, i) + BLimb(b, i) + carry
         IN  <<s % Base>> \o BAddFrom(a, b, i + 1, s \div Base)

BAdd(a, b) == BNorm(BAddFrom(a, b, 1, 0))

RECURSIVE BMulSmallFrom(_, _, _, _)
BMulSmallFrom(a, k, i, carry) ==
    IF i > Len(a)
    THEN (IF carry = 0 THEN <<>> ELSE <<carry>>)
    ELSE LET p == a[i] * k + carry
         IN  <<p % Base>> \o BMulSmallFrom(a, k, i + 1, p \div Base)

\* k < Base
BMulSmall(a, k) == BNorm(BMulSmallFrom(a, k, 1, 0))

BShiftLimbs(a, n) == IF a = <<>> THEN <<>> ELSE [i \in 1..n |-> 0] \o a

RECURSIVE BMulFrom(_, _, _)
BMulFrom(a, b, i) ==
    IF i > Len(b) THEN <<>>
    ELSE BAdd(BShiftLimbs(BMulSmall(a, b[i]), i - 1), BMulFrom(a, b, i + 1))

BMul(a, b) == BMulFrom(a, b, 1)

\* quotient and remainder by a one-limb divisor, from the most significant limb
RECURSIVE BDivSmallFrom(_, _, _, _)
BDivSmallFrom(a, k, i, rem) ==
    IF i = 0 THEN [q |-> <<>>, r |-> rem]
    ELSE LET cur  == rem * Base + a[i]
             rest == BDivSmallFrom(a, k, i - 1, cur % k)
         IN  [q |-> rest.q \o <<cur \div k>>, r |-> rest.r]

BDivMod(a, k) == LET d == BDivSmallFrom(a, k, Len(a), 0)
                 IN  [q |-> BNorm(d.q), r |-> d.r]

RECURSIVE Pow2(_)
Pow2(n) == IF n = 0 THEN 1 ELSE 2 * Pow2(n - 1)

RECURSIVE BShl(_, _)
BShl(a, n) == IF n = 0 THEN a
              ELSE IF n >= 14 THEN BShl(BMulSmall(a, 16384), n - 14)
              ELSE BMulSmall(a, Pow2(n))

\* floor(a / 2^n) and whether any of the n dropped bits is set
RECURSIVE BShr(_, _)
BShr(a, n) == IF n = 0 THEN [q |-> a, sticky |-> FALSE]
              ELSE LET step == IF n >= 14 THEN 14 ELSE n
                       d    == BDivMod(a, Pow2(step))
                       rest == BShr(d.q, n - step)
                   IN  [q |-> rest.q, sticky |-> rest.sticky \/ d.r # 0]

RECURSIVE IntBitLen(_)
IntBitLen(k) == IF k = 0 THEN 0 ELSE 1 + IntBitLen(k \div 2)

BBitLen(a) == IF a = <<>> THEN 0 ELSE 15 * (Len(a) - 1) + IntBitLen(a[Len(a)])

BIsOdd(a) == a # <<>> /\ a[1] % 2 = 1

RECURSIVE BCmpFrom(_, _, _)
BCmpFrom(a, b, i) == IF i = 0 THEN 0
                     ELSE IF a[i] < b[i] THEN -1
                     ELSE IF a[i] > b[i] THEN 1
                     ELSE BCmpFrom(a, b, i - 1)

\* -1, 0, 1
BCmp(a, b) == IF Len(a) < Len(b) THEN -1
              ELSE IF Len(a) > Len(b) THEN 1
              ELSE BCmpFrom(a, b, Len(a))

\* ---------- IEEE-754 binary64, non-negative finite values m * 2^e ----------
MantBits == 53

RECURSIVE FCanon(_, _)
FCanon(m, e) == IF m = <<>> THEN [m |-> <<>>, e |-> 0]
                ELSE IF BIsOdd(m) THEN [m |-> m, e |-> e]
                ELSE FCanon(BDivMod(m, 2).q, e + 1)

\* nearest double to m * 2^e, ties to even
FRound(m, e) ==
    LET len == BBitLen(m)
    IN  IF len <= MantBits THEN FCanon(m, e)
        ELSE LET drop  == len - MantBits
                 hi    == BShr(m, drop - 1)
                 guard == BIsOdd(hi.q)
                 q     == BDivMod(hi.q, 2).q
                 up    == guard /\ (hi.sticky \/ BIsOdd(q))
             IN  FCanon(IF up THEN BAdd(q, <<1>>) ELSE q, e + drop)

FFromInt(k) == FCanon(BFromInt(k), 0)

FAdd(x, y) ==
    LET e == IF x.e < y.e THEN x.e ELSE y.e
    IN  IF x.m = <<>> THEN y
        ELSE IF y.m = <<>> THEN x
        ELSE FRound(BAdd(BShl(x.m, x.e - e), BShl(y.m, y.e - e)), e)

FMul(x, y) == FRound(BMul(x.m, y.m), x.e + y.e)

\* the divisor's mantissa fits one limb
FDiv(x, y) ==
    LET shift == 70
        d     == BDivMod(BShl(x.m, shift), y.m[1])
        m     == BAdd(BMulSmall(d.q, 2), IF d.r = 0 THEN <<>> ELSE <<1>>)
    IN  IF x.m = <<>> THEN x ELSE FRound(m, x.e - y.e - shift - 1)

FCmp(x, y) ==
    LET e == IF x.e < y.e THEN x.e ELSE y.e
    IN  IF x.m = <<>> /\ y.m = <<>> THEN 0
        ELSE IF x.m = <<>> THEN -1
        ELSE IF y.m = <<>> THEN 1
        ELSE BCmp(BShl(x.m, x.e - e), BShl(y.m, y.e - e))

FGeq(x, y) == FCmp(x, y) >= 0
FGt(x, y)  == FCmp(x, y) > 0

\* the decimal literal num/den as Python reads it
FLit(num, den) == FDiv(FFromInt(num), FFromInt(den))

\* x * k to the nearest integer, ties to even (k < Base)
FRoundScaled(x, k) ==
    LET p == BMulSmall(x.m, k)
    IN  IF x.e >= 0 THEN BToInt(BShl(p, x.e))
        ELSE LET hi    == BShr(p, (-x.e) - 1)
                 guard == BIsOdd(hi.q)
                 q     == BDivMod(hi.q, 2).q
                 up    == guard /\ (hi.sticky \/ BIsOdd(q))
             IN  BToInt(q) + (IF up THEN 1 ELSE 0)

\* round(x, 2), in hundredths
FRoundHundredths(x) == FRoundScaled(x, 100)

\* ---------- text ----------
UpperCase == <<"A", "B", "C", "D", "E", "F", "G", "H", "I", "J", "K", "L", "M",
               "N", "O", "P", "Q", "R", "S", "T", "U", "V", "W", "X", "Y", "Z">>
LowerCase == <<"a", "b", "c", "d", "e", "f", "g", "h", "i", "j", "k", "l", "m",
               "n", "o", "p", "q", "r", "s", "t", "u", "v", "w", "x", "y", "z">>
Whitespace == {" ", "\t", "\n"}

LowerChar(c) == IF \E i \in 1..26 : UpperCase[i] = c
                THEN LowerCase[CHOOSE i \in 1..26 : UpperCase[i] = c]
                ELSE c

\* str.lower()
lower(s) == [i \in 1..Len(s) |-> LowerChar(s[i])]

\* str.strip()
RECURSIVE strip(_)
strip(s) == IF s = <<>> THEN s
            ELSE IF s[1] \in Whitespace THEN strip(Tail(s))
            ELSE IF s[Len(s)] \in Whitespace THEN strip(SubSeq(s, 1, Len(s) - 1))
            ELSE s

\* the Python test "sub in s" on strings
Contains(sub, s) == \E i \in 0..(Len(s) - Len(sub)) : SubSeq(s, i + 1, i + Len(sub)) = sub

\* Python's None where a string is expected
None == <<"None">>

Digits == {"0", "1", "2", "3", "4", "5", "6", "7", "8", "9"}
IsUpper(c) == \E i \in 1..26 : UpperCase[i] = c
IsLowerCase(c) == \E i \in 1..26 : LowerCase[i] = c
IsLetter(c) == IsUpper(c) \/ IsLowerCase(c)

\* the class \w of the regular expressions
IsWordChar(c) == IsLetter(c) \/ c \in Digits \/ c = "_"

UpperChar(c) == IF IsLowerCase(c)
                THEN UpperCase[CHOOSE i \in 1..26 : LowerCase[i] = c]
                ELSE c

\* str.title(): a letter after a non-letter is upper case, any other letter lower case
title(s) == [i \in 1..Len(s) |->
               IF i = 1 \/ ~IsLetter(s[i - 1]) THEN UpperChar(s[i]) ELSE LowerChar(s[i])]

\* sub occurs in s right after the first k characters
OccursAt(sub, s, k) == k + Len(sub) <= Len(s) /\ SubSeq(s, k + 1, k + Len(sub)) = sub

\* \b between the first k characters of s and the rest
BoundaryAt(s, k) ==
    (k >= 1 /\ IsWordChar(s[k])) # (k < Len(s) /\ IsWordChar(s[k + 1]))

\* re.search(r'\b' + re.escape(word) + r'\b', s)
SearchBounded(word, s) ==
    \E k \in 0..(Len(s) - Len(word)) :
        OccursAt(word, s, k) /\ BoundaryAt(s, k) /\ BoundaryAt(s, k + Len(word))

\* re.search(r'\b(w1|w2|...)\b', s) for a set of words
SearchAnyBounded(words, s) == \E w \in words : SearchBounded(w, s)

\* the characters of s after the first k
From(s, k) == SubSeq(s, k + 1, Len(s))

\* length of the longest prefix of s made of characters of the set
RECURSIVE RunLen(_, _)
RunLen(s, set) == IF s # <<>> /\ s[1] \in set THEN 1 + RunLen(Tail(s), set) ELSE 0

\* str.split(sep) and re.split on a set of one-character separators
RECURSIVE SplitOn(_, _)
SplitOn(s, seps) ==
    IF \E i \in 1..Len(s) : s[i] \in seps
    THEN LET i == CHOOSE j \in 1..Len(s) : s[j] \in seps /\ \A h \in 1..(j - 1) : s[h] \notin seps
         IN  <<SubSeq(s, 1, i - 1)>> \o SplitOn(From(s, i), seps)
    ELSE <<s>>

\* the members of a sequence
Range(seq) == {seq[i] : i \in 1..Len(seq)}

\* ---------- ResumeScorer ----------
ACTION_VERBS ==
    { <<"b", "u", "i", "l", "d">>,
      <<"d", "e", "v", "e", "l", "o", "p">>,
      <<"d", "e", "s", "i", "g", "n">>,
      <<"i", "m", "p", "l", "e", "m", "e", "n", "t">>,
      <<"o", "p", "t", "i", "m", "i", "z", "e">>,
      <<"d", "e", "p", "l", "o", "y">>,
      <<"s", "c", "a", "l", "e">>,
      <<"i", "n", "t", "e", "g", "r", "a", "t", "e">>,
      <<"m", "a", "i", "n", "t", "a", "i", "n">>,
      <<"a", "r", "c", "h", "i", "t", "e", "c", "t">>,
      <<"c", "r", "e", "a", "t", "e">>,
      <<"m", "a", "n", "a", "g", "e">>,
      <<"l", "e", "a", "d">>,
      <<"e", "n", "g", "i", "n", "e", "e", "r">>,
      <<"t", "e", "s", "t">>,
      <<"d", "e", "b", "u", "g">> }

normalize_skill(skill) == lower(strip(skill))

\* as weights, the good-to-have tier weighing as much as the must-have tier
weights_flat == [must_have |-> FFromInt(1), good_to_have |-> FFromInt(1)]

\* self.weights, by tier
weights == [must_have |-> FFromInt(1), good_to_have |-> FLit(5, 10)]

\* the sentences of is_contextual's loop that hold the skill and an action verb
ContextualAt(skill, sentences) ==
    { i \in 1..Len(sentences) :
        /\ sentences[i] # <<>>
        /\ Contains(normalize_skill(skill), lower(sentences[i]))
        /\ \E v \in ACTION_VERBS : Contains(v, lower(sentences[i])) }

Min(S) == CHOOSE x \in S : \A y \in S : x <= y

is_contextual(skill, sentences) ==
    LET hits == ContextualAt(skill, sentences)
    IN  IF hits = {} THEN [contextual |-> FALSE, evidence |-> None]
        ELSE [contextual |-> TRUE, evidence |-> strip(sentences[Min(hits)])]

\* the sentences of the textual-recovery loop that mention the skill
TextualAt(skill, sentences) ==
    { i \in 1..Len(sentences) :
        sentences[i] # <<>> /\ Contains(normalize_skill(skill), lower(sentences[i])) }

\* torch.max and torch.argmax (the first index of the maximum)
MaxScore(scores) == CHOOSE m \in {scores[i] : i \in 1..Len(scores)} :
                       \A i \in 1..Len(scores) : scores[i] <= m
ArgMax(scores) == Min({i \in 1..Len(scores) : scores[i] = MaxScore(scores)})

\* the acceptance threshold 0.60, in hundredths
SemanticThreshold == 60

NoMatch == [match |-> FALSE, confidence |-> 0, evidence |-> None]

\* the outcomes of the try block of find_semantic_match
EmbedOutcomes == {"ok", "skill_encode_raises", "sentence_encode_raises", "cos_sim_raises"}

\* whether find_semantic_match gets as far as the try block
ReachesEmbedding(has_model, skill, sentences) ==
    has_model /\ sentences # <<>> /\ TextualAt(skill, sentences) = {}

\* as find_semantic_match, the textual recovery keeping the last mention
find_semantic_match_last_mention(has_model, skill, sentences, outcome, scores) ==
    IF ~has_model \/ sentences = <<>> THEN NoMatch
    ELSE IF TextualAt(skill, sentences) # {}
    THEN [match |-> TRUE, confidence |-> 100,
          evidence |-> strip(sentences[CHOOSE i \in TextualAt(skill, sentences) :
                                          \A j \in TextualAt(skill, sentences) : j <= i])]
    ELSE IF outcome = "ok" /\ MaxScore(scores) > SemanticThreshold
    THEN [match |-> TRUE, confidence |-> MaxScore(scores),
          evidence |-> strip(sentences[ArgMax(scores)])]
    ELSE NoMatch

\* as find_semantic_match, without the test of self.model before the textual
\* recovery (None.encode raises in the try block and is caught)
find_semantic_match_unguarded(has_model, skill, sentences, outcome, scores) ==
    IF sentences = <<>> THEN NoMatch
    ELSE IF TextualAt(skill, sentences) # {}
    THEN [match |-> TRUE, confidence |-> 100,
          evidence |-> strip(sentences[Min(TextualAt(skill, sentences))])]
    ELSE IF has_model /\ outcome = "ok" /\ MaxScore(scores) > SemanticThreshold
    THEN [match |-> TRUE, confidence |-> MaxScore(scores),
          evidence |-> strip(sentences[ArgMax(scores)])]
    ELSE NoMatch

\* as find_semantic_match, a best similarity equal to the threshold accepted
find_semantic_match_at_threshold(has_model, skill, sentences, outcome, scores) ==
    IF ~has_model \/ sentences = <<>> THEN NoMatch
    ELSE IF TextualAt(skill, sentences) # {}
    THEN [match |-> TRUE, confidence |-> 100,
          evidence |-> strip(sentences[Min(TextualAt(skill, sentences))])]
    ELSE IF outcome = "ok" /\ MaxScore(scores) >= SemanticThreshold
    THEN [match |-> TRUE, confidence |-> MaxScore(scores),
          evidence |-> strip(sentences[ArgMax(scores)])]
    ELSE NoMatch

\* find_semantic_match; outcome and scores are what the provider does in the
\* try block (scores: cosine similarity to each sentence, in hundredths);
\* confidence is in hundredths
find_semantic_match(has_model, skill, sentences, outcome, scores) ==
    IF ~has_model \/ sentences = <<>> THEN NoMatch
    ELSE IF TextualAt(skill, sentences) # {}
    THEN [match |-> TRUE, confidence |-> 100,
          evidence |-> strip(sentences[Min(TextualAt(skill, sentences))])]
    ELSE IF outcome = "ok" /\ MaxScore(scores) > SemanticThreshold
    THEN [match |-> TRUE, confidence |-> MaxScore(scores),
          evidence |-> strip(sentences[ArgMax(scores)])]
    ELSE NoMatch

\* as semantic_except, the exception leaving find_semantic_match
semantic_except_reraise(outcome) == IF outcome = "ok" THEN "return" ELSE "raise"

\* the except clause of find_semantic_match: every exception is caught
semantic_except(outcome) == IF outcome = "ok" THEN "return" ELSE "caught"

\* as sentence_encodes, the cached embeddings being ignored
sentence_encodes_uncached(cached, outcome) ==
    IF outcome = "skill_encode_raises" THEN 0 ELSE 1

\* the number of times the try block encodes resume_sentences
sentence_encodes(cached, outcome) ==
    IF cached THEN 0
    ELSE IF outcome = "skill_encode_raises" THEN 0
    ELSE 1

\* the except clause around the pre-computation in score
precompute_except(raises) == IF raises THEN "caught" ELSE "return"

extract_skills_from_jd(jd_text_list) == {normalize_skill(item) : item \in jd_text_list}

\* as exact_boost, the contextual bonus being 0.5
exact_boost_half(contextual) ==
    IF contextual THEN FAdd(FFromInt(1), FLit(5, 10)) ELSE FFromInt(1)

\* score_boost of an exact match: 1.0, and 0.3 more with contextual evidence
exact_boost(contextual) ==
    IF contextual THEN FAdd(FFromInt(1), FLit(3, 10)) ELSE FFromInt(1)

\* score_boost of a semantic recovery
semantic_boost == FLit(6, 10)


\* "if (missing_must / len(must_have_skills)) > 0.4": missing_must counts the
\* entries of matches['missing'] that are must-have skills
missing_must(missing, must) == Cardinality({i \in 1..Len(missing) : missing[i] \in must})

\* as penalized, the comparison with 0.4 turned round
penalized_flipped(missing, must) ==
    /\ must # {}
    /\ ~FGt(FDiv(FFromInt(missing_must(missing, must)), FFromInt(Cardinality(must))),
            FLit(4, 10))

penalized(missing, must) ==
    /\ must # {}
    /\ FGt(FDiv(FFromInt(missing_must(missing, must)), FFromInt(Cardinality(must))),
           FLit(4, 10))

\* as zero_guard, the test being absent
zero_guard_absent(total) == FALSE

\* "if total_possible == 0"
zero_guard(total) == total = FFromInt(0)

\* "final_score *= 0.6"
penalty_factor == FLit(6, 10)

verdict_of(score) == IF FGeq(score, FFromInt(75)) THEN "Strong Fit"
                     ELSE IF FGeq(score, FFromInt(50)) THEN "Moderate Fit"
                     ELSE "Weak Fit"

\* ---------- ResumeParser ----------
\* self.section_patterns, in the order of the dictionary; each pattern is
\* \b(word|...)\b, an optional final s written out as two words
SectionNames == <<"education", "experience", "projects", "skills", "achievements">>

section_patterns ==
    [education |-> {<<"e", "d", "u", "c", "a", "t", "i", "o", "n">>, <<"a", "c", "a", "d", "e", "m", "i", "c">>, <<"q", "u", "a", "l", "i", "f", "i", "c", "a", "t", "i", "o", "n">>},
     experience |-> {<<"e", "x", "p", "e", "r", "i", "e", "n", "c", "e">>, <<"w", "o", "r", "k">>, <<"e", "m", "p", "l", "o", "y", "m", "e", "n", "t">>, <<"i", "n", "t", "e", "r", "n", "s", "h", "i", "p">>},
     projects |-> {<<"p", "r", "o", "j", "e", "c", "t">>, <<"p", "r", "o", "j", "e", "c", "t", "s">>, <<"p", "o", "r", "t", "f", "o", "l", "i", "o">>},
     skills |-> {<<"s", "k", "i", "l", "l">>, <<"s", "k", "i", "l", "l", "s">>, <<"t", "e", "c", "h", "n", "i", "c", "a", "l">>, <<"t", "e", "c", "h", "n", "o", "l", "o", "g", "i", "e", "s">>, <<"c", "o", "m", "p", "e", "t", "e", "n", "c", "i", "e", "s">>},
     achievements |-> {<<"a", "c", "h", "i", "e", "v", "e", "m", "e", "n", "t">>, <<"a", "c", "h", "i", "e", "v", "e", "m", "e", "n", "t", "s">>, <<"c", "e", "r", "t", "i", "f", "i", "c", "a", "t", "i", "o", "n">>, <<"c", "e", "r", "t", "i", "f", "i", "c", "a", "t", "i", "o", "n", "s">>, <<"a", "w", "a", "r", "d">>, <<"a", "w", "a", "r", "d", "s">>}]

\* the entries of self.known_skills that occur in the texts of this model
known_skills == {<<"p", "y", "t", "h", "o", "n">>, <<"j", "a", "v", "a">>, <<"j", "a", "v", "a", "s", "c", "r", "i", "p", "t">>, <<"s", "q", "l">>, <<"m", "y", "s", "q", "l">>, <<"g", "o">>, <<"r", "e", "a", "c", "t">>, <<"a", "w", "s">>, <<"c">>, <<"r">>, <<"c", "+", "+">>}

HeaderLimit == 50

\* lines 250-254: the section whose pattern the line matches first, "" if none
header_always(line_stripped) ==
    LET hits == {k \in 1..Len(SectionNames) :
                   SearchAnyBounded(section_patterns[SectionNames[k]], lower(line_stripped))}
    IN  IF hits = {} THEN "" ELSE SectionNames[Min(hits)]

header_of(line_stripped) ==
    LET hits == {k \in 1..Len(SectionNames) :
                   /\ SearchAnyBounded(section_patterns[SectionNames[k]], lower(line_stripped))
                   /\ Len(line_stripped) < HeaderLimit}
    IN  IF hits = {} THEN "" ELSE SectionNames[Min(hits)]

\* _extract_tech_from_line, line 593: the ends of the keyword alternatives that
\* match s (lower case) after its first p characters, in the order the regular
\* expression tries them
UsedEnd(s, e) ==
    LET w == RunLen(From(s, e), Whitespace)
    IN  IF w >= 1 /\ OccursAt(<<"u", "s", "e", "d">>, s, e + w) THEN e + w + 4 ELSE 0

TechKeywordEnds(s, p) ==
    IF OccursAt(<<"t", "e", "c", "h">>, s, p)
    THEN LET e4 == p + 4
             e2 == e4 + 8
         IN  (IF OccursAt(<<"n", "o", "l", "o", "g", "i", "e", "s">>, s, e4)
              THEN (IF UsedEnd(s, e2) # 0 THEN <<UsedEnd(s, e2)>> ELSE <<>>) \o <<e2>>
              ELSE <<>>)
             \o (IF UsedEnd(s, e4) # 0 THEN <<UsedEnd(s, e4)>> ELSE <<>>)
             \o <<e4>>
    ELSE IF OccursAt(<<"b", "u", "i", "l", "t">>, s, p)
    THEN LET w == RunLen(From(s, p + 5), Whitespace)
         IN  IF w >= 1 /\ OccursAt(<<"w", "i", "t", "h">>, s, p + 5 + w)
             THEN <<p + 5 + w + 4>> ELSE <<>>
    ELSE IF OccursAt(<<"s", "t", "a", "c", "k">>, s, p) THEN <<p + 5>> ELSE <<>>

\* the ends after which (.+) still has a character to match
TechLiveEnds(s, p) == SelectSeq(TechKeywordEnds(s, p), LAMBDA e : e < Len(s))

\* match.group(2) of line 594-597, <<>> standing for no match
tech_string(line) ==
    LET s == lower(line)
        starts == {p \in 0..Len(s) : TechLiveEnds(s, p) # <<>>}
    IN  IF starts = {} THEN <<>>
        ELSE LET e == TechLiveEnds(s, Min(starts))[1]
                 m == RunLen(From(s, e), Whitespace \cup {":"})
                 k == IF m < Len(s) - e - 1 THEN m ELSE Len(s) - e - 1
             IN  From(line, e + k)

\* line 603: re.sub(r'\b(and|or|with)\b', '', s), from the first k characters on
StopWords == {<<"a", "n", "d">>, <<"o", "r">>, <<"w", "i", "t", "h">>}

RECURSIVE RemoveStopWordsFrom(_, _)
RemoveStopWordsFrom(s, k) ==
    IF k >= Len(s) THEN <<>>
    ELSE LET hit == {w \in StopWords :
                       OccursAt(w, s, k) /\ BoundaryAt(s, k) /\ BoundaryAt(s, k + Len(w))}
         IN  IF hit # {}
             THEN RemoveStopWordsFrom(s, k + Len(CHOOSE w \in hit : TRUE))
             ELSE <<s[k + 1]>> \o RemoveStopWordsFrom(s, k + 1)

\* lines 607-615: the dictionary entries found in a text, short ones as words
ShortLimit == 3

skills_found_unbounded(text_lower) == {k \in known_skills : Contains(k, text_lower)}

skills_found(text_lower) ==
    {k \in known_skills :
        IF Len(k) <= ShortLimit THEN SearchBounded(k, text_lower) ELSE Contains(k, text_lower)}

\* the orders in which a loop over a Python set can visit its members
Orders(S) == {q \in [1..Cardinality(S) -> S] : Range(q) = S}

\* lines 599-615: what one call can append to tech_list, part by part
RECURSIVE TechLists(_)
TechLists(parts) ==
    IF parts = <<>> THEN {<<>>}
    ELSE LET tech_clean == strip(RemoveStopWordsFrom(lower(strip(parts[1])), 0))
         IN  {a \o b : a \in Orders(skills_found(tech_clean)), b \in TechLists(Tail(parts))}

extract_tech_from_line(line) ==
    IF tech_string(line) = <<>> THEN {<<>>}
    ELSE TechLists(SplitOn(tech_string(line), {","}))

\* ---------- ResumeParser.extract_education ----------
\* lines 408-410
school_indicators ==
    {<<"x", "i", "i">>, <<"1", "2", "t", "h">>, <<"h", "s", "c">>, <<"h", "i", "g", "h", "e", "r", " ", "s", "e", "c", "o", "n", "d", "a", "r", "y">>, <<"j", "u", "n", "i", "o", "r", " ", "c", "o", "l", "l", "e", "g", "e">>, <<"s", "e", "n", "i", "o", "r", " ", "s", "e", "c", "o", "n", "d", "a", "r", "y">>, <<"i", "n", "t", "e", "r", "m", "e", "d", "i", "a", "t", "e">>, <<"p", "r", "e", "-", "u", "n", "i", "v", "e", "r", "s", "i", "t", "y">>}

\* line 422
is_school(line_lower) == \E indicator \in school_indicators : Contains(indicator, line_lower)

\* the parts of the degree patterns; an end is the number of characters of s up
\* to the end of the match, and <<>> is no match
DotEnd(s, k) == IF k < Len(s) /\ s[k + 1] = "." THEN k + 1 ELSE k
WsEnd(s, k) == k + RunLen(From(s, k), Whitespace)
LitEnds(lit, s, p) == IF OccursAt(lit, s, p) THEN <<p + Len(lit)>> ELSE <<>>

\* x\.?\s*tech with x the first letter
SpacedTechEnds(x, s, p) ==
    IF OccursAt(<<x>>, s, p) /\ OccursAt(<<"t", "e", "c", "h">>, s, WsEnd(s, DotEnd(s, p + 1)))
    THEN <<WsEnd(s, DotEnd(s, p + 1)) + 4>> ELSE <<>>

\* b\.?\s*e\.? : the longer match is tried first
SpacedBeEnds(s, p) ==
    LET k == WsEnd(s, DotEnd(s, p + 1))
    IN  IF OccursAt(<<"b">>, s, p) /\ OccursAt(<<"e">>, s, k)
        THEN (IF OccursAt(<<".">>, s, k + 1) THEN <<k + 2>> ELSE <<>>) \o <<k + 1>>
        ELSE <<>>

\* x\.?tech
DottedTechEnds(x, s, p) ==
    IF OccursAt(<<x>>, s, p) /\ OccursAt(<<"t", "e", "c", "h">>, s, DotEnd(s, p + 1))
    THEN <<DotEnd(s, p + 1) + 4>> ELSE <<>>

\* b\.?e\.?
DottedBeEnds(s, p) ==
    LET k == DotEnd(s, p + 1)
    IN  IF OccursAt(<<"b">>, s, p) /\ OccursAt(<<"e">>, s, k)
        THEN <<DotEnd(s, k + 1)>> ELSE <<>>

\* line 430: the alternatives of degree_pattern in their order
BoundedDegreeEnds(s, p) ==
    SpacedTechEnds("b", s, p) \o LitEnds(<<"b", "a", "c", "h", "e", "l", "o", "r">>, s, p) \o SpacedBeEnds(s, p)
    \o SpacedTechEnds("m", s, p) \o LitEnds(<<"m", "a", "s", "t", "e", "r">>, s, p)
    \o LitEnds(<<"m", "b", "a">>, s, p) \o LitEnds(<<"b", "c", "a">>, s, p)
    \o LitEnds(<<"m", "c", "a">>, s, p) \o LitEnds(<<"p", "h", "d">>, s, p)

\* line 435: the alternatives of the second pattern in their order
LooseDegreeEnds(s, p) ==
    DottedTechEnds("b", s, p) \o LitEnds(<<"b", "t", "e", "c", "h">>, s, p)
    \o LitEnds(<<"b", "-", "t", "e", "c", "h">>, s, p) \o LitEnds(<<"b", "a", "c", "h", "e", "l", "o", "r">>, s, p)
    \o DottedBeEnds(s, p) \o DottedTechEnds("m", s, p) \o LitEnds(<<"m", "t", "e", "c", "h">>, s, p)
    \o LitEnds(<<"m", "a", "s", "t", "e", "r">>, s, p) \o LitEnds(<<"m", "b", "a">>, s, p)
    \o LitEnds(<<"b", "c", "a">>, s, p) \o LitEnds(<<"m", "c", "a">>, s, p)
    \o LitEnds(<<"p", "h", "d">>, s, p)

\* lines 431-438: <<start, end>> of degree_match in the line, <<>> for None
degree_match(line) ==
    LET s == lower(line)
        Live(p) == SelectSeq(BoundedDegreeEnds(s, p), LAMBDA e : BoundaryAt(s, e))
        bounded == {p \in 0..Len(s) : BoundaryAt(s, p) /\ Live(p) # <<>>}
        loose == {p \in 0..Len(s) : LooseDegreeEnds(s, p) # <<>>}
    IN  IF bounded # {} THEN <<Min(bounded), Live(Min(bounded))[1]>>
        ELSE IF loose # {} THEN <<Min(loose), LooseDegreeEnds(s, Min(loose))[1]>>
        ELSE <<>>

\* lines 446-448: the specializations in the order of the alternatives
specializations ==
    <<<<"c", "o", "m", "p", "u", "t", "e", "r", " ", "s", "c", "i", "e", "n", "c", "e">>,
       <<"c", "o", "m", "p", "u", "t", "e", "r", " ", "s", "c", "i", "e", "n", "c", "e", " ", "a", "n", "d", " ", "e", "n", "g", "i", "n", "e", "e", "r", "i", "n", "g", " ", "d", "a", "t", "a", " ", "s", "c", "i", "e", "n", "c", "e">>,
       <<"i", "n", "f", "o", "r", "m", "a", "t", "i", "o", "n", " ", "t", "e", "c", "h", "n", "o", "l", "o", "g", "y">>,
       <<"d", "a", "t", "a", " ", "s", "c", "i", "e", "n", "c", "e">>,
       <<"e", "l", "e", "c", "t", "r", "o", "n", "i", "c", "s">>,
       <<"m", "e", "c", "h", "a", "n", "i", "c", "a", "l">>,
       <<"e", "l", "e", "c", "t", "r", "i", "c", "a", "l">>,
       <<"c", "i", "v", "i", "l">>,
       <<"c", "o", "m", "p", "u", "t", "e", "r", " ", "e", "n", "g", "i", "n", "e", "e", "r", "i", "n", "g">>>>

\* lines 446-456: specialization_match.group(0).strip(), <<>> for no match
specialization_of(line) ==
    LET s == lower(line)
        At(p) == {k \in 1..Len(specializations) : OccursAt(specializations[k], s, p)}
        starts == {p \in 0..Len(s) : At(p) # {}}
    IN  IF starts = {} THEN <<>>
        ELSE LET p == Min(starts)
             IN  strip(SubSeq(line, p + 1, p + Len(specializations[Min(At(p))])))

\* as course_of, the specialization left out
course_of_degree_only(line) ==
    LET m == degree_match(line)
    IN  title(strip(SubSeq(line, m[1] + 1, m[2])))

\* lines 452-459: the course of a line with a degree match
course_of(line) ==
    LET m == degree_match(line)
        degree == strip(SubSeq(line, m[1] + 1, m[2]))
    IN  IF specialization_of(line) # <<>>
        THEN title(degree \o <<" ", "i", "n", " ">> \o specialization_of(line))
        ELSE title(degree)

\* line 461
college_keywords == {<<"i", "n", "s", "t", "i", "t", "u", "t", "e">>, <<"u", "n", "i", "v", "e", "r", "s", "i", "t", "y">>, <<"c", "o", "l", "l", "e", "g", "e">>, <<"a", "c", "a", "d", "e", "m", "y">>}

Letters == {UpperCase[i] : i \in 1..26} \cup {LowerCase[i] : i \in 1..26}

\* the classes [a-zA-Z\s\.] and [a-zA-Z\s,\.] of line 464
NameChars == Letters \cup Whitespace \cup {"."}
NameTailChars == NameChars \cup {","}

\* re.sub(r'\s+', ' ', s)
RECURSIVE CollapseWhitespace(_)
CollapseWhitespace(s) ==
    IF s = <<>> THEN <<>>
    ELSE IF s[1] \in Whitespace
    THEN <<" ">> \o CollapseWhitespace(From(s, RunLen(s, Whitespace)))
    ELSE <<s[1]>> \o CollapseWhitespace(Tail(s))

\* re.sub(r',\s*$', '', s).strip() on a stripped string
DropLastComma(s) ==
    IF s # <<>> /\ s[Len(s)] = "," THEN strip(SubSeq(s, 1, Len(s) - 1)) ELSE s

\* lines 463-467: <<start, end>> of college_match in the line, <<>> for None; the
\* match starts at a letter, runs over name characters to a keyword and on over
\* the tail characters
college_match(line) ==
    LET s == lower(line)
        Reaches(p) ==
            \E kw \in college_keywords :
               \E k \in (p + 2)..Len(s) :
                  /\ OccursAt(kw, s, k)
                  /\ \A j \in (p + 2)..k : s[j] \in NameChars
        starts == {p \in 0..(Len(s) - 1) : IsLetter(s[p + 1]) /\ Reaches(p)}
    IN  IF starts = {} THEN <<>>
        ELSE <<Min(starts), Min(starts) + 1 + RunLen(From(s, Min(starts) + 1), NameTailChars)>>

\* lines 470-485: the name kept from the match; the matched text holds no digit
\* and no dash, so the three substitutions of lines 472-483 leave it as it is
college_name_of(line) ==
    LET m == college_match(line)
    IN  DropLastComma(strip(CollapseWhitespace(strip(SubSeq(line, m[1] + 1, m[2])))))

\* line 462, first half
has_college_keyword(line) == \E keyword \in college_keywords : Contains(keyword, lower(line))

\* line 489: the starts of the matches of \b(20\d{2})\b
year_matches(line) ==
    {p \in 0..(Len(line) - 4) :
        /\ OccursAt(<<"2", "0">>, line, p)
        /\ line[p + 3] \in Digits /\ line[p + 4] \in Digits
        /\ BoundaryAt(line, p) /\ BoundaryAt(line, p + 4)}

Max(S) == CHOOSE x \in S : \A y \in S : x >= y

\* as year_of, the first token of the line
year_of_first(line) == SubSeq(line, Min(year_matches(line)) + 1, Min(year_matches(line)) + 4)

\* line 491: year_matches[-1]
year_of(line) == SubSeq(line, Max(year_matches(line)) + 1, Max(year_matches(line)) + 4)

\* line 493: <<start, end>> of group 1 of cgpa_match in line_lower, <<>> for None
cgpa_match(line_lower) ==
    LET s == line_lower
        ValueStart(p) == p + 4 + RunLen(From(s, p + 4), Whitespace \cup {":", "-"})
        ValueLen(p) == RunLen(From(s, ValueStart(p)), Digits \cup {"."})
        starts == {p \in 0..Len(s) : OccursAt(<<"c", "g", "p", "a">>, s, p) /\ ValueLen(p) >= 1}
    IN  IF starts = {} THEN <<>>
        ELSE <<ValueStart(Min(starts)), ValueStart(Min(starts)) + ValueLen(Min(starts))>>

\* line 495: cgpa_match.group(1)
cgpa_of(line_lower) == SubSeq(line_lower, cgpa_match(line_lower)[1] + 1, cgpa_match(line_lower)[2])

\* ---------- ResumeParser.extract_skills ----------
\* the printable ASCII characters in code point order, the first being number 32;
\* the grave accent, number 96, is spelled out
Ascii == <<" ", "!", "\"", "#", "$", "%", "&", "'", "(", ")", "*", "+", ",", "-", ".", "/", "0",
          "1", "2", "3", "4", "5", "6", "7", "8", "9", ":", ";", "<", "=", ">", "?", "@", "A", "B",
          "C", "D", "E", "F", "G", "H", "I", "J", "K", "L", "M", "N", "O", "P", "Q", "R", "S", "T",
          "U", "V", "W", "X", "Y", "Z", "[", "\\", "]", "^", "_", "grave", "a", "b", "c", "d", "e",
          "f", "g", "h", "i", "j", "k", "l", "m", "n", "o", "p", "q", "r", "s", "t", "u", "v", "w",
          "x", "y", "z", "{", "|", "}", "~">>

\* ord(c)
CodePoint(c) == 31 + CHOOSE i \in 1..Len(Ascii) : Ascii[i] = c

\* a < b on Python strings
StrLess(a, b) ==
    \E k \in 0..Len(a) :
        /\ k <= Len(b)
        /\ SubSeq(a, 1, k) = SubSeq(b, 1, k)
        /\ \/ k = Len(a) /\ k < Len(b)
           \/ k < Len(a) /\ k < Len(b) /\ CodePoint(a[k + 1]) < CodePoint(b[k + 1])

\* a list returned as it is
sorted_never(q) == q

\* line 304: sorted(q) for a list of strings
RECURSIVE sorted(_)
sorted(q) ==
    IF q = <<>> THEN <<>>
    ELSE LET rest == sorted(Tail(q))
             k == Cardinality({i \in 1..Len(rest) : ~StrLess(q[1], rest[i])})
         IN  SubSeq(rest, 1, k) \o <<q[1]>> \o SubSeq(rest, k + 1, Len(rest))

\* lines 274-282: the names one skill line yields by the dictionary scan
line_skills(line) == {title(k) : k \in skills_found(lower(line))}

\* line 285: the separators of a list; the bullets of the code are outside the alphabet here
Separators == {",", "-", ":"}

\* line 289: the category labels removed from the start of a part
LabelWords == {<<"l", "a", "n", "g", "u", "a", "g", "e", "s">>, <<"f", "r", "a", "m", "e", "w", "o", "r", "k", "s">>, <<"t", "o", "o", "l", "s">>, <<"d", "a", "t", "a", "b", "a", "s", "e", "s">>, <<"c", "l", "o", "u", "d">>}

\* line 289: re.sub(r'^(languages|frameworks|tools|databases|cloud)\s*', '', part_clean)
drop_label(part_clean) ==
    IF \E w \in LabelWords : OccursAt(w, part_clean, 0)
    THEN LET w == CHOOSE x \in LabelWords : OccursAt(x, part_clean, 0)
             rest == From(part_clean, Len(w))
         IN  From(rest, RunLen(rest, Whitespace))
    ELSE part_clean

\* lines 285-291: the names one skill line yields by its delimited parts
split_skills(line) ==
    IF \E i \in 1..Len(line) : line[i] \in Separators
    THEN {title(strip(part)) : part \in
            {p \in Range(SplitOn(line, Separators)) :
                LET part_clean == drop_label(lower(strip(p)))
                IN  part_clean \in known_skills /\ Len(part_clean) > 2}}
    ELSE {}

\* lines 270-291
section_skills(skill_lines) ==
    UNION {line_skills(skill_lines[i]) \cup split_skills(skill_lines[i]) : i \in 1..Len(skill_lines)}

\* lines 294-295
project_skills(project_techs) == {title(project_techs[i]) : i \in 1..Len(project_techs)}

\* lines 299-302: the scan of the whole text, a plain substring test for every entry
fallback_skills(full_text) == {title(k) : k \in {x \in known_skills : Contains(x, lower(full_text))}}

\* lines 267-302: the set skills before it is returned
skills_set(skill_lines, project_techs, full_text) ==
    LET skills == section_skills(skill_lines) \cup project_skills(project_techs)
    IN  IF skills = {} THEN fallback_skills(full_text) ELSE skills

\* line 304: list(skills) takes the set in any order, sorted orders it
extract_skills(skill_lines, project_techs, full_text) ==
    {sorted(q) : q \in Orders(skills_set(skill_lines, project_techs, full_text))}


\* ---------- JobDescriptionParser ----------
\* lines 12-21: a header pattern is a list of words with \s* between them; plural
\* says that the pattern ends with an optional s
sections_patterns ==
    [must_have |->
       <<[words |-> <<<<"m", "u", "s", "t">>, <<"h", "a", "v", "e">>>>, plural |-> FALSE],
         [words |-> <<<<"r", "e", "q", "u", "i", "r", "e", "d">>, <<"s", "k", "i", "l", "l">>>>, plural |-> TRUE],
         [words |-> <<<<"r", "e", "q", "u", "i", "r", "e", "m", "e", "n", "t", "s">>>>, plural |-> FALSE],
         [words |-> <<<<"q", "u", "a", "l", "i", "f", "i", "c", "a", "t", "i", "o", "n", "s">>>>, plural |-> FALSE],
         [words |-> <<<<"e", "s", "s", "e", "n", "t", "i", "a", "l">>>>, plural |-> FALSE],
         [words |-> <<<<"m", "i", "n", "i", "m", "u", "m">>, <<"q", "u", "a", "l", "i", "f", "i", "c", "a", "t", "i", "o", "n", "s">>>>, plural |-> FALSE],
         [words |-> <<<<"w", "h", "a", "t">>, <<"y", "o", "u">>, <<"n", "e", "e", "d">>>>, plural |-> FALSE]>>,
     good_to_have |->
       <<[words |-> <<<<"g", "o", "o", "d">>, <<"t", "o">>, <<"h", "a", "v", "e">>>>, plural |-> FALSE],
         [words |-> <<<<"n", "i", "c", "e">>, <<"t", "o">>, <<"h", "a", "v", "e">>>>, plural |-> FALSE],
         [words |-> <<<<"p", "r", "e", "f", "e", "r", "r", "e", "d">>>>, plural |-> FALSE],
         [words |-> <<<<"d", "e", "s", "i", "r", "e", "d">>>>, plural |-> FALSE],
         [words |-> <<<<"p", "l", "u", "s">>>>, plural |-> FALSE],
         [words |-> <<<<"b", "o", "n", "u", "s">>>>, plural |-> FALSE],
         [words |-> <<<<"a", "d", "d", "i", "t", "i", "o", "n", "a", "l">>, <<"s", "k", "i", "l", "l">>>>, plural |-> TRUE]>>]

\* the order in which the loops over sections_patterns.items() take the tiers
TierOrder == <<"must_have", "good_to_have">>

\* where a match of the words ends that starts after the first k characters of s, -1 for none
RECURSIVE WordsEnd(_, _, _)
WordsEnd(words, s, k) ==
    IF ~OccursAt(words[1], s, k) THEN -1
    ELSE LET e == k + Len(words[1])
         IN  IF Len(words) = 1 THEN e
             ELSE WordsEnd(Tail(words), s, e + RunLen(From(s, e), Whitespace))

\* the same for a pattern, on lower-case text: the optional s is taken when it is there
pattern_end(pat, s, k) ==
    LET e == WordsEnd(pat.words, s, k)
    IN  IF e >= 0 /\ pat.plural /\ OccursAt(<<"s">>, s, e) THEN e + 1 ELSE e

\* line 34: the match of ([\.\?!]|\b)\s*(pattern)[:\s] that starts after the first i
\* characters of text, as <<start of group 2, end of group 2>>, or <<>>; low is the
\* text in lower case, for re.IGNORECASE
header_hit(pat, text, low, i) ==
    LET a == IF text[i + 1] \in {".", "?", "!"} THEN i + 1
             ELSE IF BoundaryAt(text, i) THEN i ELSE -1
    IN  IF a < 0 THEN <<>>
        ELSE LET b == a + RunLen(From(text, a), Whitespace)
                 e == pattern_end(pat, low, b)
             IN  IF e >= 0 /\ e < Len(text) /\ text[e + 1] \in ({":"} \cup Whitespace)
                 THEN <<b, e>> ELSE <<>>

\* line 34: re.sub(..., r'\n\2:', text, flags=re.IGNORECASE), from position i on: the
\* leftmost match is replaced and the search goes on behind it
RECURSIVE sub_header(_, _, _, _)
sub_header(pat, text, low, i) ==
    LET starts == {j \in i..(Len(text) - 1) : header_hit(pat, text, low, j) # <<>>}
    IN  IF starts = {} THEN From(text, i)
        ELSE LET j == CHOOSE x \in starts : \A y \in starts : x <= y
                 hit == header_hit(pat, text, low, j)
             IN  SubSeq(text, i + 1, j) \o <<"\n">> \o SubSeq(text, hit[1] + 1, hit[2]) \o <<":">>
                    \o sub_header(pat, text, low, hit[2] + 1)

\* lines 32-34: the substitutions, pattern after pattern
RECURSIVE preprocess(_, _)
preprocess(text, pats) ==
    IF pats = <<>> THEN text
    ELSE preprocess(sub_header(pats[1], text, lower(text), 0), Tail(pats))

\* line 59: re.match(r'^\s*(pattern)[:\s]*(.*)', line_lower): group 2 stripped, in a
\* one-element list, or <<>> when the line does not match
header_content(pat, line_lower) ==
    LET e == pattern_end(pat, line_lower, RunLen(line_lower, Whitespace))
    IN  IF e < 0 THEN <<>>
        ELSE LET rest == From(line_lower, e)
             IN  <<strip(From(rest, RunLen(rest, {":"} \cup Whitespace)))>>

\* lines 57-66: the first pattern that matches, as <<tier, content>>, or <<>>
RECURSIVE first_header(_, _, _)
first_header(line_lower, t, p) ==
    IF t > Len(TierOrder) THEN <<>>
    ELSE IF p > Len(sections_patterns[TierOrder[t]]) THEN first_header(line_lower, t + 1, 1)
    ELSE LET c == header_content(sections_patterns[TierOrder[t]][p], line_lower)
         IN  IF c # <<>> THEN <<TierOrder[t], c[1]>> ELSE first_header(line_lower, t, p + 1)

jd_header(line_lower) == first_header(line_lower, 1, 1)

\* a header line that leaves the tier as it is
line_section_kept(header, current) == current

\* lines 60 and 71: the tier under which a line is extracted
line_section(header, current) == IF header # <<>> THEN header[1] ELSE current

\* an append without the test for membership
append_always(list, extracted) == list \o extracted

\* lines 78-82: append what the list does not hold yet
RECURSIVE append_new(_, _)
append_new(list, extracted) ==
    IF extracted = <<>> THEN list
    ELSE append_new(IF extracted[1] \in Range(list) THEN list ELSE Append(list, extracted[1]),
                    Tail(extracted))

\* lines 73-84, given what extract_skills([text], [], "") returned
extract_keywords(extracted, section, data) ==
    [data EXCEPT ![section] = append_new(@, extracted),
                 !.all_keywords = append_new(@, extracted)]


\* ---------- ResumeParser.extract_basic_info ----------
\* the class \S of the regular expressions, within the printable ASCII characters
NonSpace == {Ascii[i] : i \in 1..Len(Ascii)} \ Whitespace

\* lines 187-188: re.search(r"\S+@\S+", text): the first run of non-space characters
\* with an @ that is neither its first nor its last character
email_of(text) ==
    LET starts == {p \in 0..(Len(text) - 3) :
                     \E q \in (p + 2)..(Len(text) - 1) :
                         text[q] = "@" /\ \A j \in (p + 1)..(q + 1) : text[j] \in NonSpace}
    IN  IF starts = {} THEN None
        ELSE LET p == CHOOSE x \in starts : \A y \in starts : x <= y
             IN  SubSeq(text, p + 1, p + RunLen(From(text, p), NonSpace))

\* an optional character of the set after the first k characters is taken when it is there
SkipOpt(s, k, set) == IF k < Len(s) /\ s[k + 1] \in set THEN k + 1 ELSE k

\* \d{n} after the first k characters
DigitsAt(s, k, n) == k + n <= Len(s) /\ \A j \in 1..n : s[k + j] \in Digits

\* line 192, behind \+?\d{1,3}: [-.\s]?\(?\d{3}\)?[-.\s]?\d{3}[-.\s]?\d{4} from position k,
\* the end of the match or -1
PhoneSeps == {"-", "."} \cup Whitespace

phone_tail_end(s, k) ==
    LET a == SkipOpt(s, SkipOpt(s, k, PhoneSeps), {"("})
        b == SkipOpt(s, SkipOpt(s, a + 3, {")"}), PhoneSeps)
        c == SkipOpt(s, b + 3, PhoneSeps)
    IN  IF DigitsAt(s, a, 3) /\ DigitsAt(s, b, 3) /\ DigitsAt(s, c, 4) THEN c + 4 ELSE -1

\* line 192: the match of the first pattern at position i; \d{1,3} takes three digits,
\* then two, then one
phone_long_end(s, i) ==
    LET k == SkipOpt(s, i, {"+"})
        ends == [n \in 1..3 |-> IF DigitsAt(s, k, 4 - n) THEN phone_tail_end(s, k + 4 - n) ELSE -1]
    IN  IF \E n \in 1..3 : ends[n] >= 0
        THEN ends[CHOOSE n \in 1..3 : ends[n] >= 0 /\ \A m \in 1..(n - 1) : ends[m] < 0]
        ELSE -1

\* line 193: \b\d{10}\b
phone_plain_end(s, i) ==
    IF BoundaryAt(s, i) /\ DigitsAt(s, i, 10) /\ BoundaryAt(s, i + 10) THEN i + 10 ELSE -1

\* line 194: \+\d{2}\s?\d{10}
phone_prefixed_end(s, i) ==
    IF i < Len(s) /\ s[i + 1] = "+" /\ DigitsAt(s, i + 1, 2)
       /\ DigitsAt(s, SkipOpt(s, i + 3, Whitespace), 10)
    THEN SkipOpt(s, i + 3, Whitespace) + 10 ELSE -1

\* lines 196-201: the first pattern with a match gives the phone, its leftmost match
phone_of(text) ==
    LET ends == <<[i \in 0..Len(text) |-> phone_long_end(text, i)],
                  [i \in 0..Len(text) |-> phone_plain_end(text, i)],
                  [i \in 0..Len(text) |-> phone_prefixed_end(text, i)]>>
        found == {n \in 1..3 : \E i \in 0..Len(text) : ends[n][i] >= 0}
    IN  IF found = {} THEN None
        ELSE LET n == CHOOSE x \in found : \A y \in found : x <= y
                 i == CHOOSE x \in 0..Len(text) :
                          ends[n][x] >= 0 /\ \A y \in 0..(x - 1) : ends[n][y] < 0
             IN  strip(SubSeq(text, i + 1, ends[n][i]))

NonEmpty(s) == s # <<>>
NotDot(c) == c # "."

\* str.isalpha()
isalpha(w) == w # <<>> /\ \A i \in 1..Len(w) : IsLetter(w[i])

\* line 183: the stripped lines of the text that are not empty
stripped_lines(text) ==
    LET all == SplitOn(text, {"\n"})
    IN  SelectSeq([i \in 1..Len(all) |-> strip(all[i])], NonEmpty)

\* lines 206-217: the line can be the name
name_line(line, email, phone) ==
    /\ ~(email # None /\ Contains(email, line))
    /\ ~(phone # None /\ Contains(phone, line))
    /\ ~SearchAnyBounded({<<"r", "e", "s", "u", "m", "e">>, <<"c", "v">>, <<"c", "u", "r", "r", "i", "c", "u", "l", "u", "m">>}, lower(line))
    /\ LET words == SelectSeq(SplitOn(line, Whitespace), NonEmpty)
       IN  \/ /\ Len(words) >= 2
              /\ Len(words) <= 4
              /\ \A i \in 1..Len(words) : isalpha(SelectSeq(words[i], NotDot))
           \/ Len(words) = 1 /\ isalpha(words[1]) /\ Len(words[1]) > 2

\* lines 203-217: the first of the first five lines that can be the name
name_of(text, email, phone) ==
    LET ls == stripped_lines(text)
        hits == {i \in 1..Len(ls) : i <= 5 /\ name_line(ls[i], email, phone)}
    IN  IF hits = {} THEN None ELSE ls[CHOOSE i \in hits : \A j \in hits : i <= j]

\* lines 181-224
extract_basic_info(text) ==
    LET email == email_of(text)
        phone == phone_of(text)
    IN  [name |-> name_of(text, email, phone), email |-> email, phone |-> phone]


\* ---------- ResumeParser.fix_spacing ----------
\* the text with a space put before each of the characters whose places are in at
RECURSIVE spaced_before(_, _)
spaced_before(text, at) ==
    IF at = {} THEN text
    ELSE LET n == Max(at)
         IN  spaced_before(SubSeq(text, 1, n - 1), at \ {n}) \o <<" ">> \o SubSeq(text, n, Len(text))

\* re.sub(r'([a-z])([A-Z])', r'\1 \2', text): a space between a lower-case letter and
\* the capital after it (two matches cannot overlap, the second character of one
\* being a capital)
sub_camel(text) ==
    spaced_before(text, {n \in 2..Len(text) : IsLowerCase(text[n - 1]) /\ IsUpper(text[n])})

Punctuation == {".", ",", ";", ":", "!", "?"}

\* re.sub(r'([.,;:!?])([A-Za-z])', r'\1 \2', text)
sub_punctuation(text) ==
    spaced_before(text, {n \in 2..Len(text) : text[n - 1] \in Punctuation /\ IsLetter(text[n])})

OrdinalSuffixes == {<<"s", "t">>, <<"n", "d">>, <<"r", "d">>, <<"t", "h">>}

\* (\d)(st|nd|rd|th) matches the three characters after the first i
ordinal_at(text, i) ==
    /\ i + 3 <= Len(text)
    /\ text[i + 1] \in Digits
    /\ SubSeq(text, i + 2, i + 3) \in OrdinalSuffixes

\* re.sub(r'(\d)(st|nd|rd|th)', r'\1\2', text), from the first i characters on:
\* every match is replaced by its two groups
RECURSIVE sub_ordinal(_, _)
sub_ordinal(text, i) ==
    LET hits == {j \in i..(Len(text) - 3) : ordinal_at(text, j)}
    IN  IF hits = {} THEN SubSeq(text, i + 1, Len(text))
        ELSE LET j == Min(hits)
             IN  SubSeq(text, i + 1, j) \o <<text[j + 1]>> \o SubSeq(text, j + 2, j + 3)
                   \o sub_ordinal(text, j + 3)

\* the dictionary replacements, in its order; every pattern is a chain of literals
\* with \s* between them
replacements == <<
    [parts |-> <<<<"J", "a", "v", "a">>, <<"S", "c", "r", "i", "p", "t">>>>,
     repl |-> <<"J", "a", "v", "a", "S", "c", "r", "i", "p", "t">>],
    [parts |-> <<<<"T", "y", "p", "e">>, <<"S", "c", "r", "i", "p", "t">>>>,
     repl |-> <<"T", "y", "p", "e", "S", "c", "r", "i", "p", "t">>],
    [parts |-> <<<<"C", "o", "f", "f", "e", "e">>, <<"S", "c", "r", "i", "p", "t">>>>,
     repl |-> <<"C", "o", "f", "f", "e", "e", "S", "c", "r", "i", "p", "t">>],
    [parts |-> <<<<"N", "o", "d", "e">>, <<".">>, <<"j", "s">>>>,
     repl |-> <<"N", "o", "d", "e", ".", "j", "s">>],
    [parts |-> <<<<"R", "e", "a", "c", "t">>, <<"J", "s">>>>,
     repl |-> <<"R", "e", "a", "c", "t", ".", "j", "s">>],
    [parts |-> <<<<"V", "u", "e">>, <<"J", "s">>>>,
     repl |-> <<"V", "u", "e", ".", "j", "s">>],
    [parts |-> <<<<"N", "e", "x", "t">>, <<"J", "s">>>>,
     repl |-> <<"N", "e", "x", "t", ".", "j", "s">>],
    [parts |-> <<<<"N", "e", "s", "t">>, <<"J", "s">>>>,
     repl |-> <<"N", "e", "s", "t", ".", "j", "s">>],
    [parts |-> <<<<"E", "x", "p", "r", "e", "s", "s">>, <<"J", "s">>>>,
     repl |-> <<"E", "x", "p", "r", "e", "s", "s", ".", "j", "s">>],
    [parts |-> <<<<"A", "n", "g", "u", "l", "a", "r">>, <<"J", "s">>>>,
     repl |-> <<"A", "n", "g", "u", "l", "a", "r", "J", "S">>],
    [parts |-> <<<<"T", "e", "n", "s", "o", "r">>, <<"F", "l", "o", "w">>>>,
     repl |-> <<"T", "e", "n", "s", "o", "r", "F", "l", "o", "w">>],
    [parts |-> <<<<"P", "y">>, <<"T", "o", "r", "c", "h">>>>,
     repl |-> <<"P", "y", "T", "o", "r", "c", "h">>],
    [parts |-> <<<<"S", "c", "i">>, <<"K", "i", "t">>>>,
     repl |-> <<"S", "c", "i", "k", "i", "t">>],
    [parts |-> <<<<"M", "a", "t">>, <<"P", "l", "o", "t">>, <<"L", "i", "b">>>>,
     repl |-> <<"M", "a", "t", "p", "l", "o", "t", "l", "i", "b">>],
    [parts |-> <<<<"P", "o", "w", "e", "r">>, <<"B", "I">>>>,
     repl |-> <<"P", "o", "w", "e", "r", "B", "I">>],
    [parts |-> <<<<"M", "o", "n", "g", "o">>, <<"D", "B">>>>,
     repl |-> <<"M", "o", "n", "g", "o", "D", "B">>],
    [parts |-> <<<<"P", "o", "s", "t", "g", "r", "e">>, <<"S", "Q", "L">>>>,
     repl |-> <<"P", "o", "s", "t", "g", "r", "e", "S", "Q", "L">>],
    [parts |-> <<<<"M", "y">>, <<"S", "Q", "L">>>>,
     repl |-> <<"M", "y", "S", "Q", "L">>],
    [parts |-> <<<<"N", "o">>, <<"S", "Q", "L">>>>,
     repl |-> <<"N", "o", "S", "Q", "L">>],
    [parts |-> <<<<"D", "y", "n", "a", "m", "o">>, <<"D", "B">>>>,
     repl |-> <<"D", "y", "n", "a", "m", "o", "D", "B">>],
    [parts |-> <<<<"C", "o", "s", "m", "o", "s">>, <<"D", "B">>>>,
     repl |-> <<"C", "o", "s", "m", "o", "s", "D", "B">>],
    [parts |-> <<<<"G", "i", "t">>, <<"H", "u", "b">>>>,
     repl |-> <<"G", "i", "t", "H", "u", "b">>],
    [parts |-> <<<<"G", "i", "t">>, <<"L", "a", "b">>>>,
     repl |-> <<"G", "i", "t", "L", "a", "b">>],
    [parts |-> <<<<"V", "s">>, <<"C", "o", "d", "e">>>>,
     repl |-> <<"V", "S", " ", "C", "o", "d", "e">>],
    [parts |-> <<<<"V", "i", "s", "u", "a", "l">>, <<"S", "t", "u", "d", "i", "o">>>>,
     repl |-> <<"V", "i", "s", "u", "a", "l", " ", "S", "t", "u", "d", "i", "o">>],
    [parts |-> <<<<"B", "a", "c", "k">>, <<"E", "n", "d">>>>,
     repl |-> <<"B", "a", "c", "k", "e", "n", "d">>],
    [parts |-> <<<<"F", "r", "o", "n", "t">>, <<"E", "n", "d">>>>,
     repl |-> <<"F", "r", "o", "n", "t", "e", "n", "d">>],
    [parts |-> <<<<"F", "u", "l", "l">>, <<"S", "t", "a", "c", "k">>>>,
     repl |-> <<"F", "u", "l", "l", "S", "t", "a", "c", "k">>],
    [parts |-> <<<<"D", "e", "v">>, <<"O", "p", "s">>>>,
     repl |-> <<"D", "e", "v", "O", "p", "s">>],
    [parts |-> <<<<"C", "i">>, <<"/">>, <<"C", "d">>>>,
     repl |-> <<"C", "I", "/", "C", "D">>]>>

\* the number of leading whitespace characters after the first i
RECURSIVE SpaceRun(_, _)
SpaceRun(text, i) ==
    IF i < Len(text) /\ text[i + 1] \in Whitespace THEN 1 + SpaceRun(text, i + 1) ELSE 0

\* where a match of the literals k.. of the pattern that starts after the first i
\* characters ends, -1 without a match; low is the lower-cased text (re.IGNORECASE)
RECURSIVE chain_end(_, _, _, _)
chain_end(parts, low, i, k) ==
    LET lit == lower(parts[k])
        e == i + Len(lit)
    IN  IF e > Len(low) \/ SubSeq(low, i + 1, e) # lit THEN -1
        ELSE IF k = Len(parts) THEN e
        ELSE chain_end(parts, low, e + SpaceRun(low, e), k + 1)

\* re.sub(pattern, replacement, text, flags=re.IGNORECASE), from the first i
\* characters on: the leftmost match, then the matches after its end
RECURSIVE sub_replacement(_, _, _, _)
sub_replacement(rep, text, low, i) ==
    LET hits == {j \in i..(Len(text) - 1) : chain_end(rep.parts, low, j, 1) # -1}
    IN  IF hits = {} THEN SubSeq(text, i + 1, Len(text))
        ELSE LET j == Min(hits)
             IN  SubSeq(text, i + 1, j) \o rep.repl
                   \o sub_replacement(rep, text, low, chain_end(rep.parts, low, j, 1))

\* lines 157-158: the loop, from the k-th replacement on (no pattern matches in
\* an empty text)
RECURSIVE repair_names(_, _)
repair_names(text, k) ==
    IF text = <<>> \/ k > Len(replacements) THEN text
    ELSE repair_names(sub_replacement(replacements[k], text, lower(text), 0), k + 1)

\* fix_spacing
fix_spacing(text) ==
    LET camel == sub_camel(text)
        punctuated == sub_punctuation(camel)
        ordinals == sub_ordinal(punctuated, 0)
    IN  repair_names(ordinals, 1)


\* ---------- inputs ----------
MaxSentences == 2
MaxCalls == 2

SkillGo == <<"G", "o">>
SkillSqlPadded == <<" ", "S", "Q", "L">>
JdGo == <<"g", "o">>
JdGoPadded == <<"G", "O", " ">>
JdSql == <<"s", "q", "l">>
JdAws == <<"a", "w", "s">>
JdRust == <<"r", "u", "s", "t">>
SentenceEmpty == <<>>
SentenceDeployedGo == <<"D", "e", "p", "l", "o", "y", "e", "d", " ", "G", "o">>
SentenceUsesGo == <<" ", "u", "s", "e", "s", " ", "G", "o", " ">>
SentenceStack == <<"D", "e", "p", "l", "o", "y", "e", "d", " ", "G", "o", ",", " ",
                   "s", "q", "l", ",", " ", "a", "w", "s">>

ResumeSkillPool == {SkillGo, SkillSqlPadded}
MustPool == {JdGoPadded, JdSql}
GoodPool == {JdGo, JdSql}
SentencePool == {SentenceUsesGo, SentenceDeployedGo}
SentenceLists == UNION {[1..n -> SentencePool] : n \in 0..MaxSentences}
WidePool == {JdGo, JdSql, JdAws, JdRust}

\* lines of a resume
MaxLines == 3
LineEmpty == <<>>
LineEducation ==
    <<"E", "d", "u", "c", "a", "t", "i", "o", "n">>
LineSkillsHeader ==
    <<" ", "S", "K", "I", "L", "L", "S", ":">>
LineProjects ==
    <<"P", "r", "o", "j", "e", "c", "t", "s">>
LineBlank ==
    <<" ", " ">>
LinePythonSql ==
    <<"P", "y", "t", "h", "o", "n", ",", " ", "S", "Q", "L">>
LineTech ==
    <<"T", "e", "c", "h", ":", " ", "G", "o", " ", "a", "n", "d", " ", "S", "Q", "L", ",", " ", "A", "W", "S">>
LineLong ==
    <<"W", "o", "r", "k", " ", "e", "x", "p", "e", "r", "i", "e", "n", "c", "e", " ", "b", "u", "i", "l", "d", "i", "n", "g", " ", "d", "a", "t", "a", " ", "p", "i", "p", "e", "l", "i", "n", "e", "s", " ", "a", "t", " ", "s", "c", "a", "l", "e", " ", "i", "n", " ", "G", "o">>
LineDegreePadded ==
    <<" ", "B", ".", "T", "e", "c", "h", " ", "2", "0", "2", "4", " ">>

LinePool == {LineEmpty, LineBlank, LineEducation, LineSkillsHeader, LineProjects,
             LinePythonSql, LineTech, LineLong, LineDegreePadded}
TextLines == UNION {[1..n -> LinePool] : n \in 0..MaxLines}

\* lines of an education section
MaxEduLines == 3
EduDegree ==
    <<"B", ".", "T", "e", "c", "h", " ", "i", "n", " ", "C", "o", "m", "p", "u", "t", "e", "r", " ", "S", "c", "i", "e", "n", "c", "e", " ", "2", "0", "2", "0", " ", "-", " ", "2", "0", "2", "4">>
EduCollege ==
    <<"S", "t", "a", "n", "f", "o", "r", "d", " ", "U", "n", "i", "v", "e", "r", "s", "i", "t", "y", ",", " ", "C", "A">>
EduCgpa ==
    <<"C", "G", "P", "A", ":", " ", "8", ".", "5">>
EduSchool ==
    <<"X", "I", "I", " ", "H", "S", "C", " ", "J", "u", "n", "i", "o", "r", " ", "C", "o", "l", "l", "e", "g", "e", " ", "2", "0", "1", "9">>
EduMba ==
    <<"M", "B", "A", " ", "2", "0", "2", "6">>
EduYear ==
    <<"2", "0", "1", "8">>
EduBlank ==
    <<" ">>

EduLinePool == {EduDegree, EduCollege, EduCgpa, EduSchool, EduMba, EduYear, EduBlank}
EduLineLists == UNION {[1..n -> EduLinePool] : n \in 0..MaxEduLines}

\* skill lines, project technologies and texts given to extract_skills
MaxSkillLines == 2
SkillsPlain ==
    <<"P", "y", "t", "h", "o", "n", ",", " ", "S", "Q", "L">>
SkillsLabelled ==
    <<"L", "a", "n", "g", "u", "a", "g", "e", "s", " ", "P", "y", "t", "h", "o", "n", ",", " ", "g", "o">>
SkillsMysql ==
    <<"M", "y", "S", "Q", "L">>
SkillLinePool == {SkillsPlain, SkillsLabelled, SkillsMysql, <<>>}
SkillLineLists == UNION {[1..n -> SkillLinePool] : n \in 0..MaxSkillLines}
ProjectTechPool == {<<>>, <<<<"r", "e", "a", "c", "t">>>>}
TextDjango ==
    <<"D", "j", "a", "n", "g", "o", " ", "a", "n", "d", " ", "R", "e", "a", "c", "t">>
TextJava ==
    <<"J", "a", "v", "a", " ", "a", "n", "d", " ", "G", "o">>
FullTextPool == {<<>>, TextDjango, TextJava}
SkillArgs == [skill_lines : SkillLineLists, project_techs : ProjectTechPool, full_text : FullTextPool]
OtherSkillArgs == {[skill_lines |-> <<SkillsMysql>>, project_techs |-> <<>>, full_text |-> <<>>],
                   [skill_lines |-> <<>>, project_techs |-> <<>>, full_text |-> TextDjango]}


\* job descriptions: pieces joined by newlines
MaxJdPieces == 3
JdPlain ==
    <<"P", "y", "t", "h", "o", "n">>
JdRequirements ==
    <<"R", "e", "q", "u", "i", "r", "e", "m", "e", "n", "t", "s", ":", " ", "S", "Q", "L">>
JdNice ==
    <<"N", "i", "c", "e", " ", "t", "o", " ", "h", "a", "v", "e", ":", " ", "G", "o">>
JdInline ==
    <<"A", "W", "S", " ", "i", "s", " ", "a", " ", "p", "l", "u", "s", " ", "f", "o", "r", " ", "R", "e", "a", "c", "t">>
JdPreferred ==
    <<" ", "P", "r", "e", "f", "e", "r", "r", "e", "d">>
JdPiecePool == {JdPlain, JdRequirements, JdNice, JdInline, JdPreferred, <<>>}

RECURSIVE JoinLines(_)
JoinLines(pieces) ==
    IF pieces = <<>> THEN <<>>
    ELSE IF Len(pieces) = 1 THEN pieces[1]
    ELSE pieces[1] \o <<"\n">> \o JoinLines(Tail(pieces))

JdTexts == {JoinLines(q) : q \in UNION {[1..n -> JdPiecePool] : n \in 0..MaxJdPieces}}


\* resume texts given to parse_text: lines joined by newlines
LineContact ==
    <<"j", "o", "@", "x", ".", "i", "o", " ", "9", "8", "7", "6", "5", "4", "3", "2", "1", "0">>
LineName ==
    <<"M", "e", "e", "t", " ", "O", "z", "a">>
LineExperience ==
    <<"E", "X", "P", "E", "R", "I", "E", "N", "C", "E">>
LineEmployer ==
    <<"A", "c", "m", "e", ",", " ", "E", "n", "g", "i", "n", "e", "e", "r">>
LineRange ==
    <<"J", "a", "n", " ", "2", "0", "2", "3", " ", "-", " ", "M", "a", "r", " ", "2", "0", "2", "3">>
ResumeLinePool == {LineContact, LineName, LineEducation, LineDegreePadded, LineSkillsHeader,
                   LinePythonSql, LineExperience, LineEmployer, LineRange}
ResumeTexts == {JoinLines(q) : q \in UNION {[1..n -> ResumeLinePool] : n \in 0..MaxLines}}


\* the texts of the pages of a PDF as pdfplumber reports them (empty for a page
\* without text), or the paragraphs of a DOCX
MaxPages == 2
PageOrdinal == <<"1", " ", "s", "t">>
PageSecond == <<"2", "n", "d", ".", "N", "e", "x", "t">>
PageCamel == <<"J", "a", "v", "a", "S", "c", "r", "i", "p", "t">>
PageDatabase == <<"M", "y", " ", "S", "Q", "L", " ", "3", " ", "r", "d">>
PagePool == {<<>>, PageOrdinal, PageSecond, PageCamel, PageDatabase}
PageLists == UNION {[1..n -> PagePool] : n \in 0..MaxPages}
FileKinds == {"pdf", "docx", "other"}


\* cosine similarities the provider can report, in hundredths
SimValues == {60, 61}

\* ---------- state ----------
VARIABLES
    model,              \* self.model is loaded (not None)
    resume_skills,      \* arguments of the call of score
    jd_data,
    resume_sentences,
    resume_skills_set,  \* locals of score
    cached_embeddings,  \* TRUE when the pre-computed embeddings are held
    must_have_skills,
    good_to_have_skills,
    matches,
    current_score,
    total_possible,
    final_score,
    result,
    pc,                 \* position in score
    todo,               \* skills of the running process_skills loop still to visit
    encode_calls,       \* calls of model.encode(resume_sentences) in this call of score
    failed,             \* <<tier, skill>> whose try block raised in this call of score
    cos_scores,         \* similarities the provider has reported, by skill
    calls,              \* calls of score so far
    prev_score,         \* score and failures of the previous call
    prev_failed

\* ModelManager and the threads that call ModelManager().get_model()
VARIABLES
    mm_instance,        \* ModelManager._instance: an instance id, 0 for None
    mm_model,           \* _model as read through each instance, 0 for None
    mm_loads,           \* SentenceTransformer objects constructed so far
    mm_failures,        \* constructions that raised
    callers             \* per caller: position, self, loaded object, value returned

\* ResumeParser.split_into_sections
VARIABLES
    lines,              \* text.split('\n')
    line_no,            \* position of the for loop over lines
    current_section,
    sections,
    split_pc

\* ResumeParser.extract_education
VARIABLES
    edu_lines,          \* the argument
    edu_i,              \* i, counted from 1
    current_edu,        \* a dictionary: a function on the keys it holds
    education_list,
    edu_pc

\* calls of ResumeParser.extract_skills
VARIABLES
    skills_pinned,      \* the arguments whose results are compared
    skills_args,        \* arguments of the latest call
    skills_result,      \* what the latest call returned
    skills_returns,     \* everything returned so far for the pinned arguments
    skills_between,     \* another call came after a call with the pinned arguments
    skills_calls        \* calls so far

\* JobDescriptionParser.parse
VARIABLES
    jd_text,            \* the argument
    jd_lines,           \* text.split('\n') after the substitutions
    jd_i,               \* position of the for loop over lines, counted from 1
    jd_current_section,
    parsed_data,
    jd_pc

\* ResumeParser.parse_text
VARIABLES
    resume_text,        \* the argument
    basic_info,
    parse_skills,       \* the value of the key skills, once computed
    parse_result,       \* the dictionary returned: a function on its keys
    parse_pc

\* ResumeParser.extract_text
VARIABLES
    file_kind,          \* what file_path ends with
    file_parts,         \* the page texts of the PDF, the paragraphs of the DOCX
    extracted_text,     \* the local text, then the value returned
    extract_pc

scorer_vars == <<model, resume_skills, jd_data, resume_sentences, resume_skills_set,
                 cached_embeddings, must_have_skills, good_to_have_skills, matches,
                 current_score, total_possible, final_score, result, pc, todo,
                 encode_calls, failed, cos_scores, calls, prev_score, prev_failed>>

manager_vars == <<mm_instance, mm_model, mm_loads, mm_failures, callers>>

sections_vars == <<lines, line_no, current_section, sections, split_pc>>

education_vars == <<edu_lines, edu_i, current_edu, education_list, edu_pc>>

skills_vars == <<skills_pinned, skills_args, skills_result, skills_returns, skills_between, skills_calls>>

jd_vars == <<jd_text, jd_lines, jd_i, jd_current_section, parsed_data, jd_pc>>

parse_vars == <<resume_text, basic_info, parse_skills, parse_result, parse_pc>>

extract_vars == <<file_kind, file_parts, extracted_text, extract_pc>>

vars == <<scorer_vars, manager_vars, sections_vars, education_vars, skills_vars, jd_vars, parse_vars, extract_vars>>

\* the state outside the scorer
beside_scorer == <<manager_vars, sections_vars, education_vars, skills_vars, jd_vars, parse_vars, extract_vars>>

args == <<model, resume_skills, jd_data, resume_sentences>>
locals == <<resume_skills_set, cached_embeddings, must_have_skills, good_to_have_skills>>

EmptyMatches == [exact |-> <<>>, contextual |-> <<>>, semantic |-> <<>>, missing |-> <<>>]

NoResult == [score |-> 0, verdict |-> "", breakdown |-> EmptyMatches,
             details |-> [total_must_have |-> 0, total_good_to_have |-> 0]]

Fresh ==
    /\ resume_skills_set = {}
    /\ cached_embeddings = FALSE
    /\ must_have_skills = {}
    /\ good_to_have_skills = {}
    /\ matches = EmptyMatches
    /\ current_score = FFromInt(0)
    /\ total_possible = FFromInt(0)
    /\ final_score = FFromInt(0)
    /\ result = NoResult
    /\ pc = "call"
    /\ todo = {}
    /\ encode_calls = 0
    /\ failed = {}
    /\ cos_scores = <<>>
    /\ calls = 1
    /\ prev_score = 0
    /\ prev_failed = {}

\* number of callers of ModelManager().get_model()
NumCallers == 3
Callers == 1..NumCallers

\* class attributes of ModelManager as the class statement leaves them
ManagerFresh ==
    /\ mm_instance = 0
    /\ mm_model = [inst \in Callers |-> 0]
    /\ mm_loads = 0
    /\ mm_failures = 0
    /\ callers = [c \in Callers |-> [pc |-> "new17", self |-> 0, loaded |-> 0, got |-> 0]]

\* lines 228-238: the empty buckets, before the loop
EmptySections == [education |-> <<>>, experience |-> <<>>, projects |-> <<>>, skills |-> <<>>,
                  achievements |-> <<>>, project_technologies |-> <<>>, raw_text |-> <<>>]

SectionsFresh ==
    /\ lines = <<>>
    /\ line_no = 1
    /\ current_section = "raw_text"
    /\ sections = EmptySections
    /\ split_pc = "loop"

\* a dictionary without keys
EmptyDict == [key \in {} |-> <<>>]

\* lines 406-412
EducationFresh ==
    /\ edu_lines = <<>>
    /\ edu_i = 1
    /\ current_edu = EmptyDict
    /\ education_list = <<>>
    /\ edu_pc = "loop"

\* no call of extract_skills yet
NoSkillArgs == [skill_lines |-> <<>>, project_techs |-> <<>>, full_text |-> <<>>]

SkillsFresh ==
    /\ skills_pinned = NoSkillArgs
    /\ skills_args = NoSkillArgs
    /\ skills_result = <<>>
    /\ skills_returns = {}
    /\ skills_between = FALSE
    /\ skills_calls = 0

\* line 38: the empty lists
EmptyParsed == [must_have |-> <<>>, good_to_have |-> <<>>, all_keywords |-> <<>>]

\* no call of parse yet
JdFresh ==
    /\ jd_text = <<>>
    /\ jd_lines = <<>>
    /\ jd_i = 1
    /\ jd_current_section = "must_have"
    /\ parsed_data = EmptyParsed
    /\ jd_pc = "start"

\* no call of parse_text yet
ParseFresh ==
    /\ resume_text = <<>>
    /\ basic_info = [name |-> None, email |-> None, phone |-> None]
    /\ parse_skills = <<>>
    /\ parse_result = EmptyDict
    /\ parse_pc = "start"

\* no call of extract_text yet
ExtractFresh ==
    /\ file_kind = "other"
    /\ file_parts = <<>>
    /\ extracted_text = <<>>
    /\ extract_pc = "start"

\* the state outside the scorer, at rest
BesideScorerFresh == ManagerFresh /\ SectionsFresh /\ EducationFresh /\ SkillsFresh /\ JdFresh /\ ParseFresh /\ ExtractFresh

Init ==
    /\ BesideScorerFresh
    /\ model \in BOOLEAN
    /\ resume_skills \in SUBSET ResumeSkillPool
    /\ jd_data \in [must_have : SUBSET MustPool, good_to_have : SUBSET GoodPool]
    /\ resume_sentences \in SentenceLists
    /\ Fresh

\* a resume whose one sentence names three skills, against larger skill lists
InitWide ==
    /\ BesideScorerFresh
    /\ model = TRUE
    /\ resume_skills = {SkillGo}
    /\ jd_data \in [must_have : SUBSET WidePool, good_to_have : SUBSET WidePool]
    /\ Cardinality(jd_data.must_have) + Cardinality(jd_data.good_to_have)
         >= 2 * Cardinality(WidePool) - 1
    /\ resume_sentences = <<SentenceEmpty, SentenceStack>>
    /\ Fresh

\* job skills that no sentence of the pool names, so that their recovery is left to
\* the embeddings
InitRecovery ==
    /\ BesideScorerFresh
    /\ model = TRUE
    /\ resume_skills \in SUBSET {SkillSqlPadded}
    /\ jd_data \in [must_have : SUBSET {JdSql, JdRust}, good_to_have : SUBSET {JdSql}]
    /\ resume_sentences \in SentenceLists
    /\ Fresh

\* ---------- score ----------
\* lines 202-225: the locals, with the pre-computation of the sentence embeddings
Score ==
    /\ UNCHANGED beside_scorer
    /\ pc = "call"
    /\ \E raises \in (IF model /\ resume_sentences # <<>> THEN BOOLEAN ELSE {FALSE}) :
         /\ cached_embeddings' = (model /\ resume_sentences # <<>> /\ ~raises)
         /\ encode_calls' = (IF model /\ resume_sentences # <<>> THEN 1 ELSE 0)
         /\ pc' = IF precompute_except(raises) = "raise" THEN "raised" ELSE "must_have"
    /\ resume_skills_set' = {normalize_skill(s) : s \in resume_skills}
    /\ must_have_skills' = extract_skills_from_jd(jd_data.must_have)
    /\ good_to_have_skills' = extract_skills_from_jd(jd_data.good_to_have)
    /\ todo' = extract_skills_from_jd(jd_data.must_have)
    /\ matches' = EmptyMatches
    /\ current_score' = FFromInt(0)
    /\ total_possible' = FFromInt(0)
    /\ failed' = {}
    /\ UNCHANGED <<args, final_score, result, cos_scores, calls, prev_score, prev_failed>>

\* as ProcessExact, an exact match with contextual evidence being listed under
\* contextual only
ProcessExactContextualOnly ==
    /\ UNCHANGED beside_scorer
    /\ pc \in {"must_have", "good_to_have"}
    /\ \E skill \in todo :
         /\ normalize_skill(skill) \in resume_skills_set
         /\ LET ctx == is_contextual(skill, resume_sentences)
            IN  /\ matches' = IF ctx.contextual
                              THEN [matches EXCEPT !.contextual =
                                      Append(@, [skill |-> skill, evidence |-> ctx.evidence])]
                              ELSE [matches EXCEPT !.exact = Append(@, skill)]
                /\ current_score' = FAdd(current_score,
                                         FMul(weights[pc], exact_boost(ctx.contextual)))
         /\ total_possible' = FAdd(total_possible, weights[pc])
         /\ todo' = todo \ {skill}
    /\ UNCHANGED <<args, locals, final_score, result, pc, encode_calls, failed,
                   cos_scores, calls, prev_score, prev_failed>>

\* process_skills, one skill of the loop: the exact-match branch
ProcessExact ==
    /\ UNCHANGED beside_scorer
    /\ pc \in {"must_have", "good_to_have"}
    /\ \E skill \in todo :
         /\ normalize_skill(skill) \in resume_skills_set
         /\ LET ctx == is_contextual(skill, resume_sentences)
            IN  /\ matches' = [matches EXCEPT
                      !.contextual = IF ctx.contextual
                                     THEN Append(@, [skill |-> skill, evidence |-> ctx.evidence])
                                     ELSE @,
                      !.exact = Append(@, skill)]
                /\ current_score' = FAdd(current_score,
                                         FMul(weights[pc], exact_boost(ctx.contextual)))
         /\ total_possible' = FAdd(total_possible, weights[pc])
         /\ todo' = todo \ {skill}
    /\ UNCHANGED <<args, locals, final_score, result, pc, encode_calls, failed,
                   cos_scores, calls, prev_score, prev_failed>>

\* what the provider may do in the try block for this skill: raise somewhere, or
\* report similarities (those it reported before for the same skill, if any)
EmbedChoices(skill) ==
    IF ~ReachesEmbedding(model, skill, resume_sentences)
    THEN {[outcome |-> "ok", scores |-> <<>>]}
    ELSE {[outcome |-> o, scores |-> <<>>] :
             o \in (IF cached_embeddings THEN {"skill_encode_raises", "cos_sim_raises"}
                    ELSE EmbedOutcomes \ {"ok"})}
         \cup
         {[outcome |-> "ok", scores |-> v] :
             v \in (IF skill \in DOMAIN cos_scores THEN {cos_scores[skill]}
                    ELSE [1..Len(resume_sentences) -> SimValues])}

\* process_skills, one skill of the loop: the semantic-recovery branch
ProcessMissing ==
    /\ UNCHANGED beside_scorer
    /\ pc \in {"must_have", "good_to_have"}
    /\ \E skill \in todo :
         /\ normalize_skill(skill) \notin resume_skills_set
         /\ \E choice \in EmbedChoices(skill) :
              LET reaches == ReachesEmbedding(model, skill, resume_sentences)
                  sem == find_semantic_match(model, skill, resume_sentences,
                                             choice.outcome, choice.scores)
              IN  /\ matches' = IF sem.match
                                THEN [matches EXCEPT !.semantic =
                                        Append(@, [skill |-> skill, evidence |-> sem.evidence,
                                                   confidence |-> sem.confidence])]
                                ELSE [matches EXCEPT !.missing = Append(@, skill)]
                  /\ current_score' = IF sem.match
                                      THEN FAdd(current_score, FMul(weights[pc], semantic_boost))
                                      ELSE current_score
                  /\ encode_calls' = encode_calls +
                        (IF reaches THEN sentence_encodes(cached_embeddings, choice.outcome) ELSE 0)
                  /\ failed' = IF choice.outcome # "ok" THEN failed \cup {<<pc, skill>>} ELSE failed
                  /\ cos_scores' = IF reaches /\ choice.outcome = "ok"
                                   THEN [s \in DOMAIN cos_scores \cup {skill} |->
                                           IF s = skill THEN choice.scores ELSE cos_scores[s]]
                                   ELSE cos_scores
                  /\ pc' = IF semantic_except(choice.outcome) = "raise" THEN "raised" ELSE pc
         /\ total_possible' = FAdd(total_possible, weights[pc])
         /\ todo' = todo \ {skill}
    /\ UNCHANGED <<args, locals, final_score, result, calls, prev_score, prev_failed>>

\* line 275: process_skills(must_have_skills) has returned, the second loop starts
StartGoodToHave ==
    /\ UNCHANGED beside_scorer
    /\ pc = "must_have"
    /\ todo = {}
    /\ pc' = "good_to_have"
    /\ todo' = good_to_have_skills
    /\ UNCHANGED <<args, locals, matches, current_score, total_possible, final_score,
                   result, encode_calls, failed, cos_scores, calls, prev_score, prev_failed>>

\* lines 277-281; a division by zero would raise ZeroDivisionError
FinalScore ==
    /\ UNCHANGED beside_scorer
    /\ pc = "good_to_have"
    /\ todo = {}
    /\ final_score' = IF zero_guard(total_possible) \/ total_possible = FFromInt(0)
                      THEN FFromInt(0)
                      ELSE FMul(FDiv(current_score, total_possible), FFromInt(100))
    /\ pc' = IF ~zero_guard(total_possible) /\ total_possible = FFromInt(0)
             THEN "raised" ELSE "penalty"
    /\ UNCHANGED <<args, locals, matches, current_score, total_possible, result, todo,
                   encode_calls, failed, cos_scores, calls, prev_score, prev_failed>>

\* lines 283-288
Penalty ==
    /\ UNCHANGED beside_scorer
    /\ pc = "penalty"
    /\ final_score' = IF penalized(matches.missing, must_have_skills)
                      THEN FMul(final_score, penalty_factor)
                      ELSE final_score
    /\ pc' = "verdict"
    /\ UNCHANGED <<args, locals, matches, current_score, total_possible, result, todo,
                   encode_calls, failed, cos_scores, calls, prev_score, prev_failed>>

\* lines 290-306; the score is kept in hundredths
Return ==
    /\ UNCHANGED beside_scorer
    /\ pc = "verdict"
    /\ result' = [score |-> FRoundHundredths(final_score),
                  verdict |-> verdict_of(final_score),
                  breakdown |-> matches,
                  details |-> [total_must_have |-> Cardinality(must_have_skills),
                               total_good_to_have |-> Cardinality(good_to_have_skills)]]
    /\ pc' = "done"
    /\ UNCHANGED <<args, locals, matches, current_score, total_possible, final_score, todo,
                   encode_calls, failed, cos_scores, calls, prev_score, prev_failed>>

\* the caller scores again on the same scorer, the resume now listing one of the
\* must-have skills that was reported missing; the locals of the new call are fresh
Rescore ==
    /\ UNCHANGED beside_scorer
    /\ pc = "done"
    /\ calls < MaxCalls
    /\ \E skill \in must_have_skills :
         /\ \E i \in 1..Len(result.breakdown.missing) : result.breakdown.missing[i] = skill
         /\ resume_skills' = resume_skills \cup {skill}
    /\ prev_score' = result.score
    /\ prev_failed' = failed
    /\ calls' = calls + 1
    /\ pc' = "call"
    /\ resume_skills_set' = {}
    /\ cached_embeddings' = FALSE
    /\ must_have_skills' = {}
    /\ good_to_have_skills' = {}
    /\ matches' = EmptyMatches
    /\ current_score' = FFromInt(0)
    /\ total_possible' = FFromInt(0)
    /\ final_score' = FFromInt(0)
    /\ result' = NoResult
    /\ todo' = {}
    /\ encode_calls' = 0
    /\ failed' = {}
    /\ UNCHANGED <<model, jd_data, resume_sentences, cos_scores>>

Next == \/ Score
        \/ ProcessExact
        \/ ProcessMissing
        \/ StartGoodToHave
        \/ FinalScore
        \/ Penalty
        \/ Return
        \/ Rescore

Spec == Init /\ [][Next]_vars

SpecWide == InitWide /\ [][Next]_vars

SpecRecovery == InitRecovery /\ [][Next]_vars

\* ---------- ModelManager ----------
\* a scorer that is not running
ScorerIdle ==
    /\ model = FALSE
    /\ resume_skills = {}
    /\ jd_data = [must_have |-> {}, good_to_have |-> {}]
    /\ resume_sentences = <<>>
    /\ Fresh

InitManager == ScorerIdle /\ BesideScorerFresh

\* the state outside ModelManager
beside_manager == <<scorer_vars, sections_vars, education_vars, skills_vars, jd_vars, parse_vars, extract_vars>>

\* the caller's position moves, with the given changes of its record
Goto(c, label) == callers' = [callers EXCEPT ![c].pc = label]

\* line 17: if cls._instance is None
New17(c) ==
    /\ callers[c].pc = "new17"
    /\ Goto(c, IF mm_instance = 0 THEN "new18" ELSE "new19")
    /\ UNCHANGED <<mm_instance, mm_model, mm_loads, mm_failures, beside_manager>>

\* line 18: a new instance is made and stored in the class
New18(c) ==
    /\ callers[c].pc = "new18"
    /\ mm_instance' = c
    /\ Goto(c, "new19")
    /\ UNCHANGED <<mm_model, mm_loads, mm_failures, beside_manager>>

\* line 19: return cls._instance, which becomes self of get_model
New19(c) ==
    /\ callers[c].pc = "new19"
    /\ callers' = [callers EXCEPT ![c].pc = "get25", ![c].self = mm_instance]
    /\ UNCHANGED <<mm_instance, mm_model, mm_loads, mm_failures, beside_manager>>

\* as Get25, the model being loaded whether or not one is held
Get25Always(c) ==
    /\ callers[c].pc = "get25"
    /\ Goto(c, "get28")
    /\ UNCHANGED <<mm_instance, mm_model, mm_loads, mm_failures, beside_manager>>

\* line 25: if self._model is None
Get25(c) ==
    /\ callers[c].pc = "get25"
    /\ Goto(c, IF mm_model[callers[c].self] = 0 THEN "get28" ELSE "get33")
    /\ UNCHANGED <<mm_instance, mm_model, mm_loads, mm_failures, beside_manager>>

\* line 28, right-hand side: SentenceTransformer(model_name) builds a model or raises
Get28(c) ==
    /\ callers[c].pc = "get28"
    /\ \/ /\ mm_loads' = mm_loads + 1
          /\ callers' = [callers EXCEPT ![c].pc = "set28", ![c].loaded = mm_loads + 1]
          /\ UNCHANGED mm_failures
       \/ /\ mm_failures' = mm_failures + 1
          /\ Goto(c, "get32")
          /\ UNCHANGED mm_loads
    /\ UNCHANGED <<mm_instance, mm_model, beside_manager>>

\* line 28, the assignment to self._model
Set28(c) ==
    /\ callers[c].pc = "set28"
    /\ mm_model' = [mm_model EXCEPT ![callers[c].self] = callers[c].loaded]
    /\ Goto(c, "get33")
    /\ UNCHANGED <<mm_instance, mm_loads, mm_failures, beside_manager>>

\* lines 30-32: the exception is logged and self._model set to None
Get32(c) ==
    /\ callers[c].pc = "get32"
    /\ mm_model' = [mm_model EXCEPT ![callers[c].self] = 0]
    /\ Goto(c, "get33")
    /\ UNCHANGED <<mm_instance, mm_loads, mm_failures, beside_manager>>

\* line 33: return self._model
Get33(c) ==
    /\ callers[c].pc = "get33"
    /\ callers' = [callers EXCEPT ![c].pc = "done", ![c].got = mm_model[callers[c].self]]
    /\ UNCHANGED <<mm_instance, mm_model, mm_loads, mm_failures, beside_manager>>

NextManager ==
    \E c \in Callers :
        \/ New17(c)
        \/ New18(c)
        \/ New19(c)
        \/ Get25(c)
        \/ Get28(c)
        \/ Set28(c)
        \/ Get32(c)
        \/ Get33(c)

SpecManager == InitManager /\ [][NextManager]_vars

\* sequential use: a caller takes a step only while no other caller is inside
\* ModelManager() or get_model
Turn(c) == \A d \in Callers \ {c} : callers[d].pc \in {"new17", "done"}

NextSequential ==
    \E c \in Callers :
        /\ Turn(c)
        /\ \/ New17(c)
           \/ New18(c)
           \/ New19(c)
           \/ Get25(c)
           \/ Get28(c)
           \/ Set28(c)
           \/ Get32(c)
           \/ Get33(c)

SpecSequential == InitManager /\ [][NextSequential]_vars


\* ---------- ResumeParser.split_into_sections ----------
beside_sections == <<scorer_vars, manager_vars, education_vars, skills_vars, jd_vars, parse_vars, extract_vars>>

InitSections ==
    /\ ScorerIdle
    /\ ExtractFresh
    /\ ParseFresh
    /\ JdFresh
    /\ SkillsFresh
    /\ ManagerFresh
    /\ EducationFresh
    /\ lines \in TextLines
    /\ line_no = 1
    /\ current_section = "raw_text"
    /\ sections = EmptySections
    /\ split_pc = "loop"

\* as bucket_append, a line already in the bucket not appended again
bucket_append_unique(bucket, line_stripped) ==
    IF line_stripped \in Range(bucket) THEN bucket ELSE Append(bucket, line_stripped)

\* line 257
bucket_append(bucket, line_stripped) == Append(bucket, line_stripped)

\* lines 241-261: one pass of the loop over the lines
SplitLine ==
    /\ split_pc = "loop"
    /\ line_no <= Len(lines)
    /\ line_no' = line_no + 1
    /\ LET line_stripped == strip(lines[line_no])
       IN  IF line_stripped = <<>>
           THEN UNCHANGED <<current_section, sections>>
           ELSE IF header_of(line_stripped) # ""
           THEN /\ current_section' = header_of(line_stripped)
                /\ UNCHANGED sections
           ELSE /\ UNCHANGED current_section
                /\ \E techs \in (IF current_section = "projects"
                                 THEN extract_tech_from_line(line_stripped) ELSE {<<>>}) :
                      sections' =
                         [[sections EXCEPT ![current_section] =
                               bucket_append(sections[current_section], line_stripped)]
                            EXCEPT !.project_technologies = @ \o techs]
    /\ UNCHANGED <<lines, split_pc, beside_sections>>

\* line 263
SplitReturn ==
    /\ split_pc = "loop"
    /\ line_no > Len(lines)
    /\ split_pc' = "done"
    /\ UNCHANGED <<lines, line_no, current_section, sections, beside_sections>>

NextSections == SplitLine \/ SplitReturn

SpecSections == InitSections /\ [][NextSections]_vars

\* ---------- ResumeParser.extract_education ----------
beside_education == <<scorer_vars, manager_vars, sections_vars, skills_vars, jd_vars, parse_vars, extract_vars>>

InitEducation ==
    /\ ScorerIdle
    /\ ExtractFresh
    /\ ParseFresh
    /\ JdFresh
    /\ SkillsFresh
    /\ ManagerFresh
    /\ SectionsFresh
    /\ edu_lines \in EduLineLists
    /\ edu_i = 1
    /\ current_edu = EmptyDict
    /\ education_list = <<>>
    /\ edu_pc = "loop"

\* d[key] = value
DictSet(d, key, value) == [k \in DOMAIN d \cup {key} |-> IF k = key THEN value ELSE d[k]]

\* as has_course, any key counting
has_course_any(edu) == DOMAIN edu # {}

\* lines 424, 442 and 499: current_edu and 'course' in current_edu
has_course(edu) == DOMAIN edu # {} /\ "course" \in DOMAIN edu

\* as closes_record, a degree line never closing the record before it
closes_record_never(edu) == FALSE

\* line 442: the degree line closes the record that is open
closes_record(edu) == has_course(edu)

\* lines 441-459: current_edu after the degree step of a line
after_degree(edu, line) ==
    IF degree_match(line) = <<>> THEN edu
    ELSE DictSet(IF closes_record(edu) THEN EmptyDict ELSE edu, "course", course_of(line))

\* lines 461-487
after_college(edu, line) ==
    IF has_college_keyword(line) /\ "college" \notin DOMAIN edu /\ college_match(line) # <<>>
    THEN DictSet(edu, "college", college_name_of(line))
    ELSE edu

\* as after_year, a later year replacing the one held
after_year_overwriting(edu, line) ==
    IF year_matches(line) # {}
    THEN DictSet(edu, "graduation_year", year_of(line))
    ELSE edu

\* lines 489-491
after_year(edu, line) ==
    IF year_matches(line) # {} /\ "graduation_year" \notin DOMAIN edu
    THEN DictSet(edu, "graduation_year", year_of(line))
    ELSE edu

\* lines 493-495
after_cgpa(edu, line) ==
    IF cgpa_match(lower(line)) # <<>>
    THEN DictSet(edu, "cgpa", cgpa_of(lower(line)))
    ELSE edu

\* lines 414-497: one pass of the while loop
EduLine ==
    /\ edu_pc = "loop"
    /\ edu_i <= Len(edu_lines)
    /\ edu_i' = edu_i + 1
    /\ LET line == strip(edu_lines[edu_i])
       IN  IF line = <<>>
           THEN UNCHANGED <<current_edu, education_list>>
           ELSE IF is_school(lower(line))
           THEN IF has_course(current_edu)
                THEN /\ education_list' = Append(education_list, current_edu)
                     /\ current_edu' = EmptyDict
                ELSE UNCHANGED <<current_edu, education_list>>
           ELSE /\ education_list' =
                      IF degree_match(line) # <<>> /\ closes_record(current_edu)
                      THEN Append(education_list, current_edu)
                      ELSE education_list
                /\ current_edu' =
                      after_cgpa(after_year(after_college(after_degree(current_edu, line),
                                                          line), line), line)
    /\ UNCHANGED <<edu_lines, edu_pc, beside_education>>

\* lines 499-501
EduReturn ==
    /\ edu_pc = "loop"
    /\ edu_i > Len(edu_lines)
    /\ education_list' = IF has_course(current_edu)
                         THEN Append(education_list, current_edu)
                         ELSE education_list
    /\ edu_pc' = "done"
    /\ UNCHANGED <<edu_lines, edu_i, current_edu, beside_education>>

NextEducation == EduLine \/ EduReturn

SpecEducation == InitEducation /\ [][NextEducation]_vars

\* ---------- ResumeParser.extract_skills ----------
MaxSkillCalls == 3

beside_skills == <<scorer_vars, manager_vars, sections_vars, education_vars, jd_vars, parse_vars, extract_vars>>

InitSkills ==
    /\ ScorerIdle
    /\ ExtractFresh
    /\ ParseFresh
    /\ JdFresh
    /\ ManagerFresh
    /\ SectionsFresh
    /\ EducationFresh
    /\ skills_pinned \in SkillArgs
    /\ skills_args = NoSkillArgs
    /\ skills_result = <<>>
    /\ skills_returns = {}
    /\ skills_between = FALSE
    /\ skills_calls = 0

\* lines 265-304: one call; the parser holds nothing that the call writes
ExtractSkills(a) ==
    /\ skills_calls < MaxSkillCalls
    /\ skills_args' = a
    /\ skills_result' \in extract_skills(a.skill_lines, a.project_techs, a.full_text)
    /\ skills_calls' = skills_calls + 1
    /\ UNCHANGED skills_pinned
    /\ UNCHANGED beside_skills

\* a call with the pinned arguments
ExtractPinned ==
    /\ ExtractSkills(skills_pinned)
    /\ skills_returns' = skills_returns \cup {skills_result'}
    /\ UNCHANGED skills_between

\* a call with other arguments
ExtractOther ==
    /\ \E a \in OtherSkillArgs : ExtractSkills(a)
    /\ skills_between' = (skills_between \/ skills_returns # {})
    /\ UNCHANGED skills_returns

NextSkills == ExtractPinned \/ ExtractOther

SpecSkills == InitSkills /\ [][NextSkills]_vars


\* ---------- JobDescriptionParser.parse ----------
beside_jd == <<scorer_vars, manager_vars, sections_vars, education_vars, skills_vars, parse_vars, extract_vars>>

InitJd ==
    /\ ScorerIdle
    /\ ExtractFresh
    /\ ParseFresh
    /\ ManagerFresh
    /\ SectionsFresh
    /\ EducationFresh
    /\ SkillsFresh
    /\ jd_text \in JdTexts
    /\ jd_lines = <<>>
    /\ jd_i = 1
    /\ jd_current_section = "must_have"
    /\ parsed_data = EmptyParsed
    /\ jd_pc = "start"

\* lines 32-44
JdPreprocess ==
    /\ jd_pc = "start"
    /\ jd_lines' = SplitOn(preprocess(jd_text, sections_patterns.must_have \o sections_patterns.good_to_have),
                           {"\n"})
    /\ jd_i' = 1
    /\ jd_current_section' = "must_have"
    /\ parsed_data' = EmptyParsed
    /\ jd_pc' = "loop"
    /\ UNCHANGED jd_text
    /\ UNCHANGED beside_jd

\* lines 46-69: one line of the loop
JdLine ==
    /\ jd_pc = "loop"
    /\ jd_i <= Len(jd_lines)
    /\ LET line_clean == strip(jd_lines[jd_i])
           header == jd_header(lower(line_clean))
           section == line_section(header, jd_current_section)
           text == IF header # <<>> THEN header[2] ELSE line_clean
       IN  IF line_clean = <<>>
           THEN UNCHANGED <<jd_current_section, parsed_data>>
           ELSE /\ jd_current_section' = section
                /\ IF text = <<>>
                   THEN UNCHANGED parsed_data
                   ELSE \E extracted \in extract_skills(<<text>>, <<>>, <<>>) :
                            parsed_data' = extract_keywords(extracted, section, parsed_data)
    /\ jd_i' = jd_i + 1
    /\ UNCHANGED <<jd_text, jd_lines, jd_pc>>
    /\ UNCHANGED beside_jd

\* line 71
JdReturn ==
    /\ jd_pc = "loop"
    /\ jd_i > Len(jd_lines)
    /\ jd_pc' = "done"
    /\ UNCHANGED <<jd_text, jd_lines, jd_i, jd_current_section, parsed_data>>
    /\ UNCHANGED beside_jd

NextJd == JdPreprocess \/ JdLine \/ JdReturn

SpecJd == InitJd /\ [][NextJd]_vars


\* ---------- ResumeParser.parse_text ----------
beside_parse == <<scorer_vars, manager_vars, skills_vars, jd_vars, extract_vars>>

InitParse ==
    /\ ScorerIdle
    /\ ExtractFresh
    /\ ManagerFresh
    /\ SkillsFresh
    /\ JdFresh
    /\ lines = <<>>
    /\ line_no = 1
    /\ current_section = "raw_text"
    /\ sections = EmptySections
    /\ split_pc = "done"
    /\ edu_lines = <<>>
    /\ edu_i = 1
    /\ current_edu = EmptyDict
    /\ education_list = <<>>
    /\ edu_pc = "done"
    /\ resume_text \in ResumeTexts
    /\ basic_info = [name |-> None, email |-> None, phone |-> None]
    /\ parse_skills = <<>>
    /\ parse_result = EmptyDict
    /\ parse_pc = "start"

\* lines 750-753: the basic info, and the call of split_into_sections
ParseStart ==
    /\ parse_pc = "start"
    /\ basic_info' = extract_basic_info(resume_text)
    /\ lines' = SplitOn(resume_text, {"\n"})
    /\ line_no' = 1
    /\ current_section' = "raw_text"
    /\ sections' = EmptySections
    /\ split_pc' = "loop"
    /\ parse_pc' = "split"
    /\ UNCHANGED <<resume_text, parse_skills, parse_result>>
    /\ UNCHANGED <<education_vars, beside_parse>>

\* lines 760-765: the value of skills, and the call of extract_education
ParseSkills ==
    /\ parse_pc = "split"
    /\ split_pc = "done"
    /\ parse_skills' \in extract_skills(sections.skills, sections.project_technologies, resume_text)
    /\ edu_lines' = sections.education
    /\ edu_i' = 1
    /\ current_edu' = EmptyDict
    /\ education_list' = <<>>
    /\ edu_pc' = "loop"
    /\ parse_pc' = "education"
    /\ UNCHANGED <<resume_text, basic_info, parse_result>>
    /\ UNCHANGED <<sections_vars, beside_parse>>

\* lines 756-771: the dictionary returned; the key experience is commented out (line 768)
ParseReturn ==
    /\ parse_pc = "education"
    /\ edu_pc = "done"
    /\ parse_result' = [name |-> basic_info.name,
                        email |-> basic_info.email,
                        phone |-> basic_info.phone,
                        skills |-> parse_skills,
                        education |-> education_list,
                        sentences |-> IF resume_text # <<>>
                                      THEN SplitOn(resume_text, {".", "\n"}) ELSE <<>>]
    /\ parse_pc' = "done"
    /\ UNCHANGED <<resume_text, basic_info, parse_skills>>
    /\ UNCHANGED <<sections_vars, education_vars, beside_parse>>

NextParse == ParseStart \/ SplitLine \/ SplitReturn \/ ParseSkills \/ EduLine \/ EduReturn \/ ParseReturn

SpecParse == InitParse /\ [][NextParse]_vars


\* ---------- ResumeParser.extract_text ----------
beside_extract == <<scorer_vars, manager_vars, sections_vars, education_vars, skills_vars, jd_vars, parse_vars>>

InitExtract ==
    /\ ScorerIdle
    /\ ManagerFresh
    /\ SectionsFresh
    /\ EducationFresh
    /\ SkillsFresh
    /\ JdFresh
    /\ ParseFresh
    /\ file_kind \in FileKinds
    /\ file_parts \in PageLists
    /\ extracted_text = <<>>
    /\ extract_pc = "start"

\* lines 164-169: the texts of the pages that have one, each followed by a newline
RECURSIVE page_texts(_)
page_texts(pages) ==
    IF pages = <<>> THEN <<>>
    ELSE (IF Head(pages) # <<>> THEN Head(pages) \o <<"\n">> ELSE <<>>) \o page_texts(Tail(pages))

\* lines 163-169
ReadPdf ==
    /\ UNCHANGED beside_extract
    /\ extract_pc = "start"
    /\ file_kind = "pdf"
    /\ extracted_text' = page_texts(file_parts)
    /\ extract_pc' = "fix"
    /\ UNCHANGED <<file_kind, file_parts>>

\* lines 171-172
FixSpacing ==
    /\ UNCHANGED beside_extract
    /\ extract_pc = "fix"
    /\ extracted_text' = fix_spacing(extracted_text)
    /\ extract_pc' = "done"
    /\ UNCHANGED <<file_kind, file_parts>>

\* lines 174-176: the paragraphs joined by newlines, fix_spacing not applied
ReadDocx ==
    /\ UNCHANGED beside_extract
    /\ extract_pc = "start"
    /\ file_kind = "docx"
    /\ extracted_text' = JoinLines(file_parts)
    /\ extract_pc' = "done"
    /\ UNCHANGED <<file_kind, file_parts>>

\* lines 178-179
Unsupported ==
    /\ UNCHANGED beside_extract
    /\ extract_pc = "start"
    /\ file_kind = "other"
    /\ extract_pc' = "raised"
    /\ UNCHANGED <<file_kind, file_parts, extracted_text>>

NextExtract == ReadPdf \/ FixSpacing \/ ReadDocx \/ Unsupported

SpecExtract == InitExtract /\ [][NextExtract]_vars


\* ---------- properties ----------
Tiers == {"must_have", "good_to_have"}

TierSkills(tier) == IF tier = "must_have" THEN must_have_skills ELSE good_to_have_skills

TiersOf(t) == {tier \in Tiers : t \in TierSkills(tier)}

Occ(seq, x) == Cardinality({i \in 1..Len(seq) : seq[i] = x})

SkillsIn(entries) == [i \in 1..Len(entries) |-> entries[i].skill]

\* the skill is a case-insensitive substring of some resume sentence
Mentioned(t) == \E i \in 1..Len(resume_sentences) : Contains(t, lower(resume_sentences[i]))

FirstMention(t) ==
    resume_sentences[Min({i \in 1..Len(resume_sentences) :
                            Contains(t, lower(resume_sentences[i]))})]

\* some sentence holds the skill together with an action verb
HasContext(t) ==
    \E i \in 1..Len(resume_sentences) :
        /\ Contains(t, lower(resume_sentences[i]))
        /\ \E v \in ACTION_VERBS : Contains(v, lower(resume_sentences[i]))

\* the provider reported, for this visit of the skill, a similarity above 0.60
Similar(tier, t) ==
    /\ <<tier, t>> \notin failed
    /\ t \in DOMAIN cos_scores
    /\ \E i \in 1..Len(cos_scores[t]) : cos_scores[t][i] > 60

\* the class the scoring rules give a target skill
ExpectedClass(tier, t) ==
    IF t \in resume_skills_set
    THEN (IF HasContext(t) THEN "contextual" ELSE "exact")
    ELSE IF model /\ resume_sentences # <<>> /\ (Mentioned(t) \/ Similar(tier, t))
    THEN "semantic"
    ELSE "missing"

\* contributions in twentieths: tier weight 1.0 = 20, 0.5 = 10
TierUnits(tier) == IF tier = "must_have" THEN 20 ELSE 10

ClassUnits(tier, class) ==
    CASE class = "contextual" -> (TierUnits(tier) * 13) \div 10
      [] class = "exact"      -> TierUnits(tier)
      [] class = "semantic"   -> (TierUnits(tier) * 6) \div 10
      [] OTHER                -> 0

RECURSIVE SumUnits(_, _)
SumUnits(tier, S) ==
    IF S = {} THEN 0
    ELSE LET t == CHOOSE x \in S : TRUE
         IN  ClassUnits(tier, ExpectedClass(tier, t)) + SumUnits(tier, S \ {t})

ExpectedUnits == SumUnits("must_have", must_have_skills)
                 + SumUnits("good_to_have", good_to_have_skills)

TotalUnits == 20 * Cardinality(must_have_skills) + 10 * Cardinality(good_to_have_skills)

Abs(n) == IF n < 0 THEN -n ELSE n

\* the double x is 100 * units / TotalUnits to within 0.0001
IsRawScore(x, units) ==
    IF TotalUnits = 0 THEN x = FFromInt(0)
    ELSE Abs(FRoundScaled(x, 10000) * TotalUnits - 1000000 * units) <= TotalUnits

\* C1 as stated: the returned score lies in [0, 100]
C1_ScoreWithin100 ==
    pc = "done" => result.score >= 0 /\ result.score <= 10000

\* C1 amended: the returned score lies in [0, 130], and in [0, 100] when no
\* exact match received the contextual boost
C1_ScoreWithin130 ==
    pc = "done" =>
        /\ result.score >= 0
        /\ result.score <= 13000
        /\ (result.breakdown.contextual = <<>> => result.score <= 10000)

C1_Witness ==
    /\ pc = "done"
    /\ result.score = 13000
    /\ result.breakdown.contextual # <<>>

\* C2: the raw score is multiplied by 0.6 exactly when there are must-have
\* skills and more than 0.4 of them (counted as distinct skills) are missing
C2_PenaltyIffDistinctMissing ==
    pc = "verdict" =>
        LET raw == IF total_possible = FFromInt(0) THEN FFromInt(0)
                   ELSE FMul(FDiv(current_score, total_possible), FFromInt(100))
            distinct == Cardinality({t \in must_have_skills : Occ(matches.missing, t) > 0})
        IN  final_score =
              IF must_have_skills # {} /\ 10 * distinct > 4 * Cardinality(must_have_skills)
              THEN FMul(raw, FLit(6, 10))
              ELSE raw

\* C3: scoring again with a must-have skill that was missing added to the resume
\* skills does not lower the score (the provider failing no more than before)
C3_Monotone ==
    (pc = "done" /\ calls >= 2 /\ failed \subseteq prev_failed)
        => result.score >= prev_score

C3_Witness ==
    /\ pc = "done"
    /\ calls >= 2
    /\ failed \subseteq prev_failed
    /\ prev_score > 0
    /\ result.score > prev_score
    /\ result.breakdown.contextual # <<>>

\* C4: the raw score is 100 * (sum of contributions) / (sum of tier weights),
\* a skill contributing its tier weight times 1.3, 1.0, 0.6 or 0 by its class
C4_RawScoreFormula ==
    pc = "penalty" => IsRawScore(final_score, ExpectedUnits)

C4_Witness ==
    /\ pc = "penalty"
    /\ matches.contextual # <<>>
    /\ matches.semantic # <<>>
    /\ matches.missing # <<>>
    /\ good_to_have_skills # {}
    /\ must_have_skills # good_to_have_skills

\* C5: the verdict is the one the reported score gives: Strong Fit from 75,
\* Moderate Fit from 50, Weak Fit below
C5_VerdictOfReportedScore ==
    pc = "done" =>
        /\ (result.verdict = "Strong Fit" <=> result.score >= 7500)
        /\ (result.verdict = "Moderate Fit" <=> (result.score >= 5000 /\ result.score < 7500))
        /\ (result.verdict = "Weak Fit" <=> result.score < 5000)

\* C6: with no must-have and no good-to-have skill the call does not raise and
\* returns score 0, Weak Fit and four empty lists
C6_EmptyJobDescription ==
    /\ pc # "raised"
    /\ (pc = "done" /\ jd_data.must_have = {} /\ jd_data.good_to_have = {})
         => /\ result.score = 0
            /\ result.verdict = "Weak Fit"
            /\ result.breakdown = EmptyMatches

C6_Witness ==
    /\ pc = "done"
    /\ jd_data.must_have = {}
    /\ jd_data.good_to_have = {}
    /\ resume_skills # {}
    /\ resume_sentences # <<>>
    /\ model

Targets == must_have_skills \cup good_to_have_skills

\* every visit of the skill was recorded as a textual recovery
TextualRecorded(t) ==
    LET sem == result.breakdown.semantic
    IN  /\ Occ(result.breakdown.missing, t) = 0
        /\ Occ(SkillsIn(sem), t) = Cardinality(TiersOf(t))
        /\ \A i \in 1..Len(sem) :
              sem[i].skill = t =>
                 sem[i].confidence = 100 /\ sem[i].evidence = strip(FirstMention(t))

\* every visit of the skill was recorded as an exact match
ExactRecorded(t) ==
    /\ Occ(result.breakdown.exact, t) = Cardinality(TiersOf(t))
    /\ Occ(SkillsIn(result.breakdown.semantic), t) = 0

\* the step visits skill t of the running loop
Visits(t) == pc \in Tiers /\ t \in todo /\ todo' = todo \ {t}

\* tier weight times 0.6
RecoveredShare == IF pc = "must_have" THEN FLit(6, 10) ELSE FLit(3, 10)

\* C7 as stated: a target skill that is not a resume skill and is mentioned in a
\* sentence is recorded under semantic with confidence 1.0 and the first such
\* sentence, never under missing, and adds tier weight times 0.6; a target skill
\* that is a resume skill is recorded under exact and never under semantic
C7_TextualRecoveryAlways ==
    /\ [](pc = "done" =>
            \A t \in Targets :
                /\ (t \notin resume_skills_set /\ Mentioned(t)) => TextualRecorded(t)
                /\ t \in resume_skills_set => ExactRecorded(t))
    /\ [][\A t \in Targets :
            (Visits(t) /\ t \notin resume_skills_set /\ Mentioned(t))
               => current_score' = FAdd(current_score, RecoveredShare)]_vars

\* C7 amended: the same, for a scorer whose embedding model is loaded
C7_TextualRecoveryWithModel ==
    /\ [](pc = "done" =>
            \A t \in Targets :
                /\ (model /\ t \notin resume_skills_set /\ Mentioned(t)) => TextualRecorded(t)
                /\ t \in resume_skills_set => ExactRecorded(t))
    /\ [][\A t \in Targets :
            (model /\ Visits(t) /\ t \notin resume_skills_set /\ Mentioned(t))
               => current_score' = FAdd(current_score, RecoveredShare)]_vars

C7_Witness ==
    /\ pc = "done"
    /\ model
    /\ Len(resume_sentences) = 2
    /\ resume_sentences[1] # resume_sentences[2]
    /\ \E t \in must_have_skills \cap good_to_have_skills :
          t \notin resume_skills_set /\ Mentioned(t) /\ TextualRecorded(t)
    /\ \E t \in Targets : t \in resume_skills_set

\* every visit of a target skill that is not a resume skill is under missing
UnmatchedAreMissing ==
    \A t \in Targets :
        t \notin resume_skills_set =>
            Occ(result.breakdown.missing, t) = Cardinality(TiersOf(t))

\* contributions when every exact match counts its tier weight times 1.0
PlainExactUnits ==
    20 * Cardinality(must_have_skills \cap resume_skills_set)
    + 10 * Cardinality(good_to_have_skills \cap resume_skills_set)

\* contributions of the exact matches, times 1.3 with contextual evidence
BoostedExactUnits ==
    PlainExactUnits
    + 6 * Cardinality({t \in must_have_skills \cap resume_skills_set : HasContext(t)})
    + 3 * Cardinality({t \in good_to_have_skills \cap resume_skills_set : HasContext(t)})

\* C8 as stated: with no model the call does not raise, semantic and contextual
\* are empty, an exact match adds its tier weight times 1.0 and the other target
\* skills are missing
C8_NoModelExactOnly ==
    /\ pc # "raised"
    /\ (~model /\ pc = "penalty") => IsRawScore(final_score, PlainExactUnits)
    /\ (~model /\ pc = "done") =>
          /\ result.breakdown.semantic = <<>>
          /\ result.breakdown.contextual = <<>>
          /\ UnmatchedAreMissing

\* C8 amended: with no model the call does not raise, semantic is empty and the
\* target skills that are not resume skills are missing; the contextual boost
\* needs no model and still applies to the exact matches
C8_NoModelNoSemantic ==
    /\ pc # "raised"
    /\ (~model /\ pc = "penalty") => IsRawScore(final_score, BoostedExactUnits)
    /\ (~model /\ pc = "done") =>
          /\ result.breakdown.semantic = <<>>
          /\ UnmatchedAreMissing
          /\ \A t \in Targets :
                Occ(SkillsIn(result.breakdown.contextual), t) =
                   IF t \in resume_skills_set /\ HasContext(t)
                   THEN Cardinality(TiersOf(t)) ELSE 0

C8_Witness ==
    /\ ~model
    /\ pc = "done"
    /\ result.breakdown.contextual # <<>>
    /\ result.breakdown.missing # <<>>
    /\ result.score > 0

\* C9: a failure of the provider for one visit of a skill is caught, that visit
\* is recorded under missing, every other visit is recorded in the class the
\* scoring rules give it, and the call returns
C9_FailureIsLocal ==
    /\ pc # "raised"
    /\ pc = "done" =>
          /\ \A ft \in failed : ExpectedClass(ft[1], ft[2]) = "missing"
          /\ \A t \in Targets :
                /\ Occ(result.breakdown.exact, t) =
                      Cardinality({tier \in TiersOf(t) :
                                     ExpectedClass(tier, t) \in {"exact", "contextual"}})
                /\ Occ(SkillsIn(result.breakdown.semantic), t) =
                      Cardinality({tier \in TiersOf(t) : ExpectedClass(tier, t) = "semantic"})
                /\ Occ(result.breakdown.missing, t) =
                      Cardinality({tier \in TiersOf(t) : ExpectedClass(tier, t) = "missing"})
          /\ Len(result.breakdown.exact) + Len(result.breakdown.semantic)
                + Len(result.breakdown.missing)
             = Cardinality(must_have_skills) + Cardinality(good_to_have_skills)

C9_Witness ==
    /\ pc = "done"
    /\ failed # {}
    /\ result.breakdown.exact # <<>>
    /\ \E i \in 1..Len(result.breakdown.semantic) :
          /\ result.breakdown.semantic[i].confidence < 100
          /\ \E ft \in failed : ft[2] = result.breakdown.semantic[i].skill

\* C10 as stated: one call of score encodes the sentence list at most once
C10_EncodedAtMostOnce == encode_calls <= 1

\* C10, the part that holds of the code: the sentence list is encoded once, before the loops, when there
\* is a model and a sentence; while that result is held no visit encodes it
\* again; when the pre-computation failed, each visit that reaches the try block
\* encodes it at most once more
C10_EncodedOnceWhenCached ==
    /\ (~model \/ resume_sentences = <<>>) => encode_calls = 0
    /\ pc = "call" => encode_calls = 0
    /\ cached_embeddings => encode_calls = 1
    /\ (pc # "call" /\ model /\ resume_sentences # <<>> /\ ~cached_embeddings) =>
          /\ encode_calls >= 1
          /\ encode_calls <= 1 + Len(matches.semantic) + Len(matches.missing)

C10_Witness ==
    /\ pc = "done"
    /\ cached_embeddings
    /\ encode_calls = 1
    /\ Cardinality({i \in 1..Len(matches.semantic) : matches.semantic[i].confidence < 100})
          + Cardinality(failed) >= 2

\* C11: for any interleaving of the callers of ModelManager().get_model(), the
\* model is constructed at most once, and when no construction raises and every
\* caller has returned it was constructed exactly once and every caller
\* received that one object
C11_LoadedOnceShared ==
    /\ mm_loads <= 1
    /\ (mm_failures = 0 /\ \A c \in Callers : callers[c].pc = "done") =>
          /\ mm_loads = 1
          /\ \A c \in Callers : callers[c].got = 1

\* the buckets of split_into_sections that hold lines
LineBuckets == {"education", "experience", "projects", "skills", "achievements", "raw_text"}

\* a line that matches one of the five header patterns and is shorter than 50
IsHeaderLine(line) ==
    /\ Len(strip(line)) < 50
    /\ \E k \in 1..Len(SectionNames) :
          SearchAnyBounded(section_patterns[SectionNames[k]], lower(strip(line)))

\* the input lines that are neither blank nor headers, stripped, in input order
ContentLines ==
    LET kept == SelectSeq(lines, LAMBDA l : strip(l) # <<>> /\ ~IsHeaderLine(l))
    IN  [i \in 1..Len(kept) |-> strip(kept[i])]

RECURSIVE IsSubseq(_, _)
IsSubseq(a, b) ==
    IF a = <<>> THEN TRUE
    ELSE IF b = <<>> THEN FALSE
    ELSE IF a[1] = b[1] THEN IsSubseq(Tail(a), Tail(b))
    ELSE IsSubseq(a, Tail(b))

RECURSIVE SumOver(_, _)
SumOver(f, S) ==
    IF S = {} THEN 0
    ELSE LET x == CHOOSE y \in S : TRUE IN f[x] + SumOver(f, S \ {x})

\* occurrences of a line over all the line buckets
InBuckets(x) == SumOver([b \in LineBuckets |-> Occ(sections[b], x)], LineBuckets)

\* C12: when split_into_sections returns, every input line that is neither blank
\* nor a header is in the line buckets as often as in the input, each bucket
\* keeps the input order, and blank lines, header lines and lines that were not
\* in the input are in no bucket
C12_SectionsPartitionLines ==
    split_pc = "done" =>
        /\ \A x \in Range(ContentLines) \cup {strip(lines[i]) : i \in 1..Len(lines)}
                     \cup UNION {Range(sections[b]) : b \in LineBuckets} :
              InBuckets(x) = Occ(ContentLines, x)
        /\ \A b \in LineBuckets : IsSubseq(sections[b], ContentLines)
        /\ SumOver([b \in LineBuckets |-> Len(sections[b])], LineBuckets) = Len(ContentLines)

C12_Witness ==
    /\ split_pc = "done"
    /\ \E i \in 1..Len(lines) : IsHeaderLine(lines[i])
    /\ \E b \in LineBuckets \ {"raw_text"} :
          /\ sections[b] # <<>>
          /\ sections.raw_text # <<>>
          /\ sections[b][1] = sections.raw_text[1]
          /\ sections[b][1] \notin Range(lines)

\* a line of the education section that is not blank, holds no high-school
\* indicator and matches a degree pattern
IsDegreeLine(l) ==
    /\ strip(l) # <<>>
    /\ ~is_school(lower(strip(l)))
    /\ degree_match(strip(l)) # <<>>

IsSchoolLine(l) == strip(l) # <<>> /\ is_school(lower(strip(l)))

\* the positions of the degree lines, ascending
RECURSIVE DegreeIdxFrom(_)
DegreeIdxFrom(j) ==
    IF j > Len(edu_lines) THEN <<>>
    ELSE (IF IsDegreeLine(edu_lines[j]) THEN <<j>> ELSE <<>>) \o DegreeIdxFrom(j + 1)

DegreeIdx == DegreeIdxFrom(1)

EduKeys == {"course", "college", "graduation_year", "cgpa"}

\* C13: every record that extract_education emits holds a non-empty course, and
\* lines without a degree line among them yield no record
C13_RecordsHaveCourse ==
    /\ \A k \in 1..Len(education_list) :
          "course" \in DOMAIN education_list[k] /\ education_list[k].course # <<>>
    /\ (edu_pc = "done" /\ \A j \in 1..Len(edu_lines) : ~IsDegreeLine(edu_lines[j]))
          => education_list = <<>>

C13_Witness ==
    /\ edu_pc = "done"
    /\ Len(edu_lines) >= 2
    /\ ~IsDegreeLine(edu_lines[1])
    /\ has_college_keyword(edu_lines[1])
    /\ education_list # <<>>
    /\ "college" \in DOMAIN education_list[1]

\* C14: every record that extract_education emits carries the four keys course,
\* college, graduation_year and cgpa
C14_AllFourKeys ==
    \A k \in 1..Len(education_list) : DOMAIN education_list[k] = EduKeys

\* the lines of the k-th record: from its degree line up to the next degree line,
\* the next high-school line or the end
SpanOf(k) ==
    {j \in DegreeIdx[k]..Len(edu_lines) :
        \A h \in (DegreeIdx[k] + 1)..j :
            ~IsDegreeLine(edu_lines[h]) /\ ~IsSchoolLine(edu_lines[h])}

\* the year tokens of a line
YearTokens(line) == {SubSeq(line, p + 1, p + 4) : p \in year_matches(line)}

\* the line yields this value for this key
Yields(l, key, value) ==
    LET line == strip(l)
    IN  CASE key = "college" ->
               /\ has_college_keyword(line) /\ college_match(line) # <<>>
               /\ college_name_of(line) = value
          [] key = "graduation_year" -> value \in YearTokens(line)
          [] key = "cgpa" -> cgpa_match(lower(line)) # <<>> /\ cgpa_of(lower(line)) = value
          [] OTHER -> FALSE

\* C18: every college, graduation_year and cgpa of an emitted record was taken
\* from a line at or after the record's degree line and before the next degree
\* line, never from a line before the degree line or after a high-school line
C18_ValuesFromOwnLines ==
    edu_pc = "done" =>
        \A k \in 1..Len(education_list) :
            /\ k <= Len(DegreeIdx)
            /\ \A key \in DOMAIN education_list[k] \ {"course"} :
                  \E j \in SpanOf(k) : Yields(edu_lines[j], key, education_list[k][key])

\* C19: extract_education emits one record per degree line, in the order of
\* those lines
C19_OneRecordPerDegreeLine ==
    edu_pc = "done" =>
        LET idx == DegreeIdx
        IN  /\ Len(education_list) = Len(idx)
            /\ \A k \in 1..Len(education_list) :
                  education_list[k].course = course_of(strip(edu_lines[idx[k]]))

C19_Witness ==
    /\ edu_pc = "done"
    /\ Len(education_list) = 2
    /\ education_list[1].course # education_list[2].course
    /\ \E j \in 1..Len(edu_lines) : ~IsDegreeLine(edu_lines[j])

\* the line that the pass of the loop reads
LineRead == strip(edu_lines[edu_i])

\* the pass of the loop puts a graduation_year into an accumulator without one
SetsYear ==
    /\ edu_pc = "loop" /\ edu_i' = edu_i + 1
    /\ "graduation_year" \in DOMAIN current_edu'
    /\ \/ "graduation_year" \notin DOMAIN current_edu
       \/ Len(education_list') > Len(education_list)

\* the pass of the loop goes on with the accumulator, which holds a graduation_year
KeepsRecord ==
    /\ edu_pc = "loop" /\ edu_i' = edu_i + 1
    /\ "graduation_year" \in DOMAIN current_edu
    /\ Len(education_list') = Len(education_list)

\* C20 as stated: the graduation_year is the first year token met, also among
\* the tokens of one line, and is not overwritten while the record is open
C20_FirstYearTokenWins ==
    [][/\ SetsYear => current_edu'.graduation_year = year_of_first(LineRead)
       /\ KeepsRecord => /\ "graduation_year" \in DOMAIN current_edu'
                         /\ current_edu'.graduation_year = current_edu.graduation_year]_vars

\* C20 amended: the graduation_year is the last year token of the first line
\* with a year token that the accumulator meets, and is not overwritten while
\* the record is open
C20_FirstYearLineWins ==
    [][/\ SetsYear => /\ year_matches(LineRead) # {}
                      /\ current_edu'.graduation_year =
                            SubSeq(LineRead, Max(year_matches(LineRead)) + 1,
                                   Max(year_matches(LineRead)) + 4)
       /\ KeepsRecord => /\ "graduation_year" \in DOMAIN current_edu'
                         /\ current_edu'.graduation_year = current_edu.graduation_year]_vars

C20_Witness ==
    /\ edu_pc = "done"
    /\ \E j \in 1..(Len(edu_lines) - 1) :
          /\ Cardinality(year_matches(strip(edu_lines[j]))) = 2
          /\ IsDegreeLine(edu_lines[j])
          /\ year_matches(strip(edu_lines[j + 1])) # {}
          /\ ~IsDegreeLine(edu_lines[j + 1]) /\ ~IsSchoolLine(edu_lines[j + 1])
          /\ education_list[Len(education_list)].graduation_year
                \notin YearTokens(strip(edu_lines[j + 1]))

\* C15: extract_skills carries no state between calls: every call with the same
\* arguments returns the same sequence, whatever calls came in between, and the
\* sequence returned is strictly ascending, hence sorted and without duplicates.
C15_SameSortedDistinct ==
    /\ Cardinality(skills_returns) <= 1
    /\ skills_calls > 0 =>
         \A i \in 1..(Len(skills_result) - 1) : StrLess(skills_result[i], skills_result[i + 1])

\* a second call with the pinned arguments after a call with others, returning three names
C15_Witness ==
    /\ skills_args = skills_pinned
    /\ skills_between
    /\ skills_returns = {skills_result}
    /\ Len(skills_result) >= 3

\* the lines of the loop, as the claim reads them
JdClean(j) == strip(jd_lines[j])
JdIsHeader(j) == JdClean(j) # <<>> /\ jd_header(lower(JdClean(j))) # <<>>
JdHeaderTier(j) == jd_header(lower(JdClean(j)))[1]
JdContent(j) == IF JdIsHeader(j) THEN jd_header(lower(JdClean(j)))[2] ELSE JdClean(j)

\* the tier of the most recent header line among the first j lines, must_have without one
RECURSIVE TierAfter(_)
TierAfter(j) ==
    IF j = 0 THEN "must_have"
    ELSE IF JdIsHeader(j) THEN JdHeaderTier(j) ELSE TierAfter(j - 1)

\* the skills in the content of line j
JdSkills(j) == UNION {Range(r) : r \in extract_skills(<<JdContent(j)>>, <<>>, <<>>)}

\* C16: in the loop of JobDescriptionParser.parse the active tier starts as must_have and
\* is at every moment the tier of the most recent header line read; a tier's list holds
\* exactly the skills of the lines read under that tier, a header line's trailing
\* content counting under the header's own tier.
C16_TierOfLatestHeader ==
    jd_pc \in {"loop", "done"} =>
        /\ jd_current_section = TierAfter(jd_i - 1)
        /\ \A t \in {"must_have", "good_to_have"} :
               Range(parsed_data[t]) = UNION {JdSkills(j) : j \in {h \in 1..(jd_i - 1) : TierAfter(h) = t}}

\* a header line with a skill after the header, a later plain line with a skill under
\* the same tier, and a skill under the other tier
C16_Witness ==
    /\ jd_pc = "done"
    /\ \E j, k \in 1..Len(jd_lines) :
           /\ j < k
           /\ JdIsHeader(j) /\ JdHeaderTier(j) = "good_to_have" /\ JdSkills(j) # {}
           /\ ~JdIsHeader(k) /\ TierAfter(k) = "good_to_have"
           /\ JdSkills(k) # {} /\ ~(JdSkills(k) \subseteq JdSkills(j))
    /\ parsed_data.must_have # <<>>

\* the inclusive count of months from one month of a year to another
InclusiveMonths(start_year, start_month, end_year, end_month) ==
    (end_year - start_year) * 12 + (end_month - start_month) + 1

\* C17: the parsed resume has experience records with the duration in months of their
\* date range: for the range "Jan 2023 - Mar 2023" under the experience header the
\* result holds an experience record of 3 months.
C17_ExperienceMonths ==
    (parse_pc = "done" /\ \E i \in 1..Len(sections.experience) : sections.experience[i] = LineRange)
        => /\ "experience" \in DOMAIN parse_result
           /\ \E i \in 1..Len(parse_result.experience) :
                  parse_result.experience[i].duration_months = InclusiveMonths(2023, 1, 2023, 3)

\* C21: a pass of the loop over a line with a high-school indicator appends the
\* accumulator when it holds a course, leaves an empty accumulator whatever it held
\* before, and takes nothing from the line.
C21_SchoolLineResets ==
    [][(edu_pc = "loop" /\ edu_i' = edu_i + 1 /\ IsSchoolLine(edu_lines[edu_i])) =>
          /\ current_edu' = EmptyDict
          /\ education_list' = IF "course" \in DOMAIN current_edu
                               THEN Append(education_list, current_edu)
                               ELSE education_list]_vars

\* C22: in every pass of extract_skills a dictionary entry of at most three characters
\* is reported only where it stands between word boundaries: in a skill line or, in the
\* fallback scan, in the full text.
C22_ShortEntriesAsWords ==
    skills_calls > 0 =>
        \A k \in known_skills :
            (Len(k) <= ShortLimit /\ title(k) \in Range(skills_result)) =>
                \/ \E i \in 1..Len(skills_args.skill_lines) :
                       SearchBounded(k, lower(skills_args.skill_lines[i]))
                \/ SearchBounded(k, lower(skills_args.full_text))
                \/ title(k) \in project_skills(skills_args.project_techs)

\* C23: the scan of the full text runs exactly when the skill lines yield no skill: then
\* the skills that stand in full_text are in the result, also with project technologies
\* given; otherwise the result holds only what the skill lines and the project
\* technologies give.
C23_FallbackWhenSectionEmpty ==
    skills_calls > 0 =>
        LET found == section_skills(skills_args.skill_lines)
        IN  /\ found = {} => line_skills(skills_args.full_text) \subseteq Range(skills_result)
            /\ found # {} =>
                 Range(skills_result) = found \cup project_skills(skills_args.project_techs)

\* what the extraction of line j returns
JdExtract(j) == CHOOSE r \in extract_skills(<<JdContent(j)>>, <<>>, <<>>) : TRUE

\* everything extracted from the first j lines under one of the tiers, in order
RECURSIVE JdExtractedUpTo(_, _)
JdExtractedUpTo(j, tiers) ==
    IF j = 0 THEN <<>>
    ELSE JdExtractedUpTo(j - 1, tiers) \o (IF TierAfter(j) \in tiers THEN JdExtract(j) ELSE <<>>)

\* a sequence without the later occurrences of its members
RECURSIVE FirstOccurrences(_)
FirstOccurrences(seq) ==
    IF seq = <<>> THEN <<>>
    ELSE LET front == FirstOccurrences(SubSeq(seq, 1, Len(seq) - 1))
         IN  IF \E i \in 1..(Len(seq) - 1) : seq[i] = seq[Len(seq)]
             THEN front ELSE Append(front, seq[Len(seq)])

NoDuplicate(seq) == \A i, j \in 1..Len(seq) : seq[i] = seq[j] => i = j

\* C24: must_have, good_to_have and all_keywords hold no entry twice, all_keywords holds
\* exactly the entries of the two tiers, and each list is in the order in which its
\* entries were first extracted.
C24_OrderedDistinctKeywords ==
    jd_pc \in {"loop", "done"} =>
        /\ NoDuplicate(parsed_data.must_have)
        /\ NoDuplicate(parsed_data.good_to_have)
        /\ NoDuplicate(parsed_data.all_keywords)
        /\ Range(parsed_data.all_keywords) =
               Range(parsed_data.must_have) \cup Range(parsed_data.good_to_have)
        /\ parsed_data.all_keywords =
               FirstOccurrences(JdExtractedUpTo(jd_i - 1, {"must_have", "good_to_have"}))
        /\ \A t \in {"must_have", "good_to_have"} :
               parsed_data[t] = FirstOccurrences(JdExtractedUpTo(jd_i - 1, {t}))

\* a skill extracted a second time, in a result with two keywords
C24_Witness ==
    /\ jd_pc = "done"
    /\ Len(parsed_data.all_keywords) >= 2
    /\ \E j, k \in 1..Len(jd_lines) : j < k /\ JdSkills(j) \cap JdSkills(k) # {}

\* the line matches one of the five header patterns
MatchesHeaderPattern(line) ==
    \E k \in 1..Len(SectionNames) :
        SearchAnyBounded(section_patterns[SectionNames[k]], lower(strip(line)))

\* the section that a header line names: that of the first pattern it matches
NamedSection(line) ==
    SectionNames[CHOOSE k \in 1..Len(SectionNames) :
        /\ SearchAnyBounded(section_patterns[SectionNames[k]], lower(strip(line)))
        /\ \A h \in 1..(k - 1) :
               ~SearchAnyBounded(section_patterns[SectionNames[h]], lower(strip(line)))]

\* for each of the first j lines: the section of the most recent header line up to
\* it, raw_text without one, and whether the line is neither blank nor a header
RECURSIVE LineTags(_)
LineTags(j) ==
    IF j = 0 THEN <<>>
    ELSE LET before == LineTags(j - 1)
             header == strip(lines[j]) # <<>> /\ IsHeaderLine(lines[j])
         IN  Append(before,
                    [section |-> IF header THEN NamedSection(lines[j])
                                 ELSE IF j = 1 THEN "raw_text" ELSE before[j - 1].section,
                     kept |-> strip(lines[j]) # <<>> /\ ~header])

\* the kept lines under section b, stripped, in order
RECURSIVE LinesUnder(_, _, _)
LinesUnder(b, tags, j) ==
    IF j = 0 THEN <<>>
    ELSE LinesUnder(b, tags, j - 1) \o
         (IF tags[j].kept /\ tags[j].section = b THEN <<strip(lines[j])>> ELSE <<>>)

\* C25: in split_into_sections the header lines are the lines that match a header
\* pattern and are shorter than 50 characters when stripped; the current section is
\* raw_text until the first header line and then the section of the most recent one,
\* and every bucket holds the other non-blank lines read under it, in order; a line
\* of 50 characters or more does not change the section.
C25_SectionOfLatestHeader ==
    split_pc \in {"loop", "done"} =>
        LET tags == LineTags(line_no - 1)
        IN  /\ current_section = IF tags = <<>> THEN "raw_text" ELSE tags[Len(tags)].section
            /\ \A b \in LineBuckets : sections[b] = LinesUnder(b, tags, Len(tags))

\* a line of 50 characters or more with a header word, kept in the bucket of the
\* header before it, which names another section
C25_Witness ==
    /\ split_pc = "done"
    /\ \E j, k \in 1..Len(lines) :
           /\ j < k
           /\ IsHeaderLine(lines[j])
           /\ MatchesHeaderPattern(lines[k]) /\ Len(strip(lines[k])) >= 50
           /\ NamedSection(lines[k]) # NamedSection(lines[j])
           /\ \E i \in 1..Len(sections[NamedSection(lines[j])]) :
                  sections[NamedSection(lines[j])][i] = strip(lines[k])

\* the tiers whose visit of the skill computed the similarities without a failure
EmbeddedTiers(t) ==
    IF t \in resume_skills_set \/ t \notin DOMAIN cos_scores THEN {}
    ELSE {tier \in TiersOf(t) : <<tier, t>> \notin failed}

\* the entries of the semantic list for the skill that carry the best similarity as
\* confidence and the stripped sentence attaining it (the first, on a tie) as evidence
BestEntries(t) ==
    LET sem == result.breakdown.semantic
    IN  {i \in 1..Len(sem) :
            /\ sem[i].skill = t
            /\ sem[i].confidence = MaxScore(cos_scores[t])
            /\ sem[i].evidence = strip(resume_sentences[ArgMax(cos_scores[t])])}

\* C26: a skill whose similarities to the resume sentences were computed is accepted
\* exactly when the largest of them is strictly above 0.60; an accepted visit is
\* listed under semantic with that maximum as confidence and the sentence attaining
\* it as evidence, a rejected one (a best similarity of exactly 0.60 included) is
\* listed under missing.
C26_AcceptAboveThreshold ==
    pc = "done" =>
        \A t \in Targets :
            EmbeddedTiers(t) # {} =>
                LET above == MaxScore(cos_scores[t]) > SemanticThreshold
                    visits == Cardinality(EmbeddedTiers(t))
                IN  /\ Occ(SkillsIn(result.breakdown.semantic), t) = IF above THEN visits ELSE 0
                    /\ Cardinality(BestEntries(t)) = IF above THEN visits ELSE 0
                    /\ Occ(result.breakdown.missing, t) =
                          Cardinality(TiersOf(t)) - (IF above THEN visits ELSE 0)

C26_Witness ==
    /\ pc = "done"
    /\ \E t, u \in Targets :
          /\ EmbeddedTiers(t) # {} /\ EmbeddedTiers(u) # {}
          /\ MaxScore(cos_scores[t]) = SemanticThreshold
          /\ Occ(result.breakdown.missing, t) > 0
          /\ MaxScore(cos_scores[u]) = SemanticThreshold + 1
          /\ BestEntries(u) # {}
          /\ \E i \in 1..Len(resume_sentences) :
                cos_scores[u][i] < SemanticThreshold + 1

\* a digit, whitespace and an ordinal suffix, after the first i characters
SplitOrdinalAt(text, i) ==
    /\ i + 1 <= Len(text)
    /\ text[i + 1] \in Digits
    /\ \E k \in (i + 2)..Len(text) :
          /\ \A j \in (i + 2)..k : text[j] \in Whitespace
          /\ k + 2 <= Len(text)
          /\ SubSeq(text, k + 1, k + 2) \in OrdinalSuffixes

\* C27: the text fix_spacing returns holds no ordinal suffix split from its number:
\* a digit followed by whitespace and one of st, nd, rd, th has been rejoined
C27_OrdinalRejoined ==
    (extract_pc = "done" /\ file_kind = "pdf") =>
        \A i \in 0..Len(extracted_text) : ~SplitOrdinalAt(extracted_text, i)

\* the loop of the tier has visited the skill
Visited(tier, t) ==
    /\ t \in TierSkills(tier)
    /\ pc \notin {"call", "raised"}
    /\ IF tier = "must_have" THEN pc = "must_have" => t \notin todo
       ELSE pc # "must_have" /\ (pc = "good_to_have" => t \notin todo)

\* C28: every visit of a target skill by the loop of a tier records it in exactly
\* one of exact, semantic and missing, so the three lists of the breakdown returned
\* have total_must_have + total_good_to_have entries together, all of them target
\* skills; every skill under contextual is under exact as often.
C28_BreakdownAccounting ==
    /\ \A t \in Targets :
          /\ Occ(matches.exact, t) + Occ(SkillsIn(matches.semantic), t) + Occ(matches.missing, t)
                = Cardinality({tier \in Tiers : Visited(tier, t)})
          /\ Occ(SkillsIn(matches.contextual), t) <= Occ(matches.exact, t)
    /\ \A i \in 1..Len(matches.exact) : matches.exact[i] \in Targets
    /\ \A i \in 1..Len(matches.semantic) : matches.semantic[i].skill \in Targets
    /\ \A i \in 1..Len(matches.missing) : matches.missing[i] \in Targets
    /\ \A i \in 1..Len(matches.contextual) : matches.contextual[i].skill \in Targets
    /\ pc = "done" =>
          /\ result.breakdown = matches
          /\ Len(result.breakdown.exact) + Len(result.breakdown.semantic)
                + Len(result.breakdown.missing)
                = result.details.total_must_have + result.details.total_good_to_have
          /\ result.details.total_must_have = Cardinality(must_have_skills)
          /\ result.details.total_good_to_have = Cardinality(good_to_have_skills)

C28_Witness ==
    /\ pc = "done"
    /\ result.breakdown.exact # <<>>
    /\ result.breakdown.semantic # <<>>
    /\ result.breakdown.missing # <<>>
    /\ result.breakdown.contextual # <<>>
    /\ \E t \in Targets : Cardinality(TiersOf(t)) = 2

\* C29: with project technologies that are dictionary entries, every name
\* extract_skills returns is the title-cased form of a dictionary entry; no part of a
\* delimited line is returned with its category label.
C29_OnlyDictionaryNames ==
    (/\ skills_calls > 0
     /\ \A i \in 1..Len(skills_args.project_techs) :
           skills_args.project_techs[i] \in known_skills) =>
        \A name \in Range(skills_result) : \E k \in known_skills : name = title(k)

\* the callers whose call has returned, and those among them that were given None
Returned == {c \in Callers : callers[c].pc = "done"}
GivenNone == {c \in Returned : callers[c].got = 0}

\* C30: in sequential use every construction returns the one manager instance;
\* get_model attempts a load exactly when no earlier load has succeeded: a call that
\* finds no model attempts one, a failed attempt returns None and is not remembered,
\* and once a load has succeeded every call returns that model and none loads again.
C30_SequentialLoadOnce ==
    /\ \A c \in Callers : callers[c].self # 0 => callers[c].self = mm_instance
    /\ mm_loads <= 1
    /\ \A c \in Callers :
          /\ callers[c].pc = "get28" => mm_loads = 0
          /\ c \in Returned \ GivenNone => callers[c].got = 1
    /\ (\A c \in Callers : callers[c].pc \in {"new17", "done"}) =>
          /\ mm_failures = IF mm_loads = 0 THEN Cardinality(Returned)
                           ELSE Cardinality(GivenNone)
          /\ mm_loads = IF Returned = GivenNone THEN 0 ELSE 1

\* a failed load, then a successful one, then a call served without loading
C30_Witness ==
    /\ Returned = Callers
    /\ Cardinality(GivenNone) = 1
    /\ mm_failures = 1
    /\ mm_loads = 1
    /\ Cardinality({c \in Callers : callers[c].got = 1}) = 2
====
